---- MODULE Spec2Model ----
(***************************************************************************)
(* A model of fontra's designspace backend (backends/designspace.py), its  *)
(* file watcher (backends/filewatcher.py) and the location helpers of      *)
(* core/varutils.py.                                                       *)
(*                                                                         *)
(* Representation.                                                         *)
(*  - A name (source identifier, layer name, display name, path stem) is a *)
(*    sequence of string tokens; the empty sequence is the empty string    *)
(*    (and stands for None where the code treats both alike).  f-string    *)
(*    concatenation is \o and "^" is a token of its own, so that           *)
(*    str.split("^", 1) is a split at the first "^" token.                 *)
(*  - A Python dict whose order is never observed is a function; a dict    *)
(*    whose insertion order is observed (reverseSparseDict) is a sequence  *)
(*    of <<key, value>> pairs with distinct keys.                          *)
(*  - A modification time is a tick of the clock of the file system, in    *)
(*    units of the datetime rounding both sides of the comparison in       *)
(*    _analyzeExternalGlyphChanges go through.  NoTime is Python's None.   *)
(*  - The backend's in-memory state is the record B, the file system is    *)
(*    the record D; a handler is an operator from the world [B, D, ...] to *)
(*    the world after it, so that handlers can be composed in formulas.    *)
(***************************************************************************)
EXTENDS Integers, Sequences, FiniteSets, TLC

(***************************************************************************)
(* Names and dicts                                                         *)
(***************************************************************************)
NoName == <<>>

Range(s) == {s[i] : i \in DOMAIN s}

HasCaret(n) == \E i \in 1..Len(n) : n[i] = "^"

\* layerName.split("^", 1): the parts before and after the first "^"
SplitCaret(n) ==
  LET i == CHOOSE j \in 1..Len(n) : n[j] = "^" /\ \A k \in 1..(j - 1) : n[k] # "^"
  IN  <<SubSeq(n, 1, i - 1), SubSeq(n, i + 1, Len(n))>>

EmptyDict == [k \in {} |-> 0]

\* d.get(k, dflt)
Get(d, k, dflt) == IF k \in DOMAIN d THEN d[k] ELSE dflt

\* a | b and {**a, **b}
Merge(a, b) ==
  [k \in (DOMAIN a) \cup (DOMAIN b) |-> IF k \in DOMAIN b THEN b[k] ELSE a[k]]

\* {k: d[k] for k in d if k in keys}
Restrict(d, keys) == [k \in (DOMAIN d) \cap keys |-> d[k]]

\* d[k] = v and del d[k]
SetItem(d, k, v) == [x \in (DOMAIN d) \cup {k} |-> IF x = k THEN v ELSE d[x]]

DelItem(d, k) == [x \in (DOMAIN d) \ {k} |-> d[x]]

\* A local variable of the code: e is evaluated once, and F is applied to
\* its value
Bind(e, F(_)) == CHOOSE r \in {F(v) : v \in {e}} : TRUE

\* Insertion-ordered dicts: sequences of <<key, value>>
OKeys(od) == {od[i][1] : i \in DOMAIN od}

OGet(od, k, dflt) ==
  IF k \in OKeys(od)
  THEN (od[CHOOSE i \in DOMAIN od : od[i][1] = k])[2]
  ELSE dflt

\* od[k] = v: an existing key keeps its position
OSet(od, k, v) ==
  IF k \in OKeys(od)
  THEN [i \in DOMAIN od |-> IF od[i][1] = k THEN <<k, v>> ELSE od[i]]
  ELSE Append(od, <<k, v>>)

\* the dict as a function (what is stored in a glyph's lib)
OAsFunction(od) == [k \in OKeys(od) |-> OGet(od, k, NoName)]

(***************************************************************************)
(* core/varutils.py                                                        *)
(***************************************************************************)
\* The axis names the model uses, in sorted() order
SortedAxisNames == <<"loc", "wdth", "wght">>

locationToTuple(loc) ==
  LET names == SelectSeq(SortedAxisNames, LAMBDA n : n \in DOMAIN loc)
  IN  [i \in 1..Len(names) |-> <<names[i], loc[names[i]]>>]

\* The order of str on the axis names
axisRank(n) == CHOOSE i \in DOMAIN SortedAxisNames : SortedAxisNames[i] = n

\* (name, value) < (otherName, otherValue), the order of tuples
itemBefore(x, y) ==
  \/ axisRank(x[1]) < axisRank(y[1])
  \/ x[1] = y[1] /\ x[2] < y[2]

\* loc.items() without sorting
unsortedItems(items) == items

\* sorted(loc.items()), for a dict whose items() come in the order of items
RECURSIVE sortedItems(_)
sortedItems(items) ==
  IF items = <<>>
  THEN <<>>
  ELSE Bind(sortedItems(Tail(items)), LAMBDA rest :
         SelectSeq(rest, LAMBDA y : itemBefore(y, Head(items)))
           \o <<Head(items)>>
           \o SelectSeq(rest, LAMBDA y : ~itemBefore(y, Head(items))))

\* makeSparseNormalizedLocation, which drops the axes at 0, given the
\* arguments of makeSparseLocation
makeSparseLocationOfNormalized(location, defaultLocation) ==
  [n \in {a \in DOMAIN location : location[a] # 0} |-> location[n]]

makeSparseLocation(location, defaultLocation) ==
  LET keep == {n \in DOMAIN defaultLocation :
                 Get(location, n, defaultLocation[n]) # defaultLocation[n]}
  IN  [n \in keep |-> location[n]]

makeDenseLocation(location, defaultLocation) ==
  [n \in DOMAIN defaultLocation |-> Get(location, n, defaultLocation[n])]

\* Numbers that need not be whole (normalized axis values and what is
\* computed from them) are counted in units of 1/Scale
Scale == 2

\* a * b for two such numbers, exact when one of them is a whole number
product(a, b) == (a * b) \div Scale

clamp(number, minimum, maximum) ==
  LET least == IF number < maximum THEN number ELSE maximum
  IN  IF least > minimum THEN least ELSE minimum

\* unnormalizeValue without the clamp
unnormalizeValueUnclamped(v, lower, dflt, upper) ==
  IF v < 0 THEN dflt + product(v, dflt - lower) ELSE dflt + product(v, upper - dflt)

unnormalizeValue(v, lower, dflt, upper) ==
  clamp(IF v < 0 THEN dflt + product(v, dflt - lower) ELSE dflt + product(v, upper - dflt),
        lower, upper)

\* axisList is a list of FontAxis with distinct names
unnormalizeLocation(location, axisList) ==
  [n \in {axisList[i].name : i \in DOMAIN axisList} \cap DOMAIN location |->
     LET axis == axisList[CHOOSE i \in DOMAIN axisList : axisList[i].name = n]
     IN  unnormalizeValue(location[n],
                          axis.minValue,
                          clamp(axis.defaultValue, axis.minValue, axis.maxValue),
                          clamp(axis.maxValue, axis.minValue, axis.maxValue))]

(***************************************************************************)
(* The axes of the designspace document (updateAxisInfo)                   *)
(***************************************************************************)
\* dsDoc.axes: one continuous axis without a map
FontAxes == <<[name |-> "wght", minimum |-> 0, default |-> 0, maximum |-> 2]>>

\* unpackDSAxis: the poles of a continuous axis
unpackDSAxisPoles(dsAxis) == {dsAxis.minimum, dsAxis.default, dsAxis.maximum}

axisNames == {FontAxes[i].name : i \in DOMAIN FontAxes}

AxisNamed(n) == FontAxes[CHOOSE i \in DOMAIN FontAxes : FontAxes[i].name = n]

axisPolePositions == [n \in axisNames |-> unpackDSAxisPoles(AxisNamed(n))]

defaultLocation == [n \in axisNames |-> AxisNamed(n).default]

\* A split that takes the whole location as not at a pole when none of its
\* values is at a pole, and as at the poles otherwise
splitLocationWhenNoneAtPole(location, poles) ==
  IF \A n \in DOMAIN location : location[n] \notin Get(poles, n, {})
  THEN [atPole |-> EmptyDict, notAtPole |-> location]
  ELSE [atPole |-> location, notAtPole |-> EmptyDict]

splitLocationByPolePosition(location, poles) ==
  LET at == {n \in DOMAIN location : location[n] \in Get(poles, n, {})}
  IN  [atPole |-> Restrict(location, at),
       notAtPole |-> Restrict(location, (DOMAIN location) \ at)]

_getGlobalPortionOfLocation(location, localAxisNames) ==
  Merge(defaultLocation,
        Restrict(location, (axisNames \cap DOMAIN location) \ localAxisNames))

(***************************************************************************)
(* Values                                                                  *)
(***************************************************************************)
\* Python's None for a number (a modification time, an advance)
NoTime == -1

NoValue == -1

\* reader.getDefaultLayerName()
DefaultLayerName == <<"public.default">>

\* The .glif file name glifLib gives a glyph name, and the glyph name
\* extractGlyphNameAndCodePoints reads from the file
FileNameOf(glyphName) == <<glyphName, ".glif">>

GlyphNameOfFile(fileName) == fileName[1]

\* The path of the .glif file of a glyph in a layer, and of the document
GlifPath(ufoPath, layerName, glyphName) ==
  <<"glif", ufoPath, layerName, FileNameOf(glyphName)>>

DocPath == <<"designspace", NoName, NoName, NoName>>

\* watchfiles.Change, an IntEnum
ChangeAdded == 1

ChangeModified == 2

ChangeDeleted == 3

(***************************************************************************)
(* ItemList, UFOLayer, DSSource                                            *)
(***************************************************************************)
\* ItemList(): the items, and _mappings, the cached indexes, one for each
\* tuple of attribute names that was asked for
NewItemList == [items |-> <<>>, mappings |-> <<>>]

\* ItemList.invalidateCache
invalidateCache(L) == [L EXCEPT !.mappings = <<>>]

\* ItemList.append without invalidateCache
appendKeepingCache(L, item) == [L EXCEPT !.items = Append(@, item)]

\* ItemList.append
append(L, item) == invalidateCache([L EXCEPT !.items = Append(@, item)])

\* tuple(getattr(item, attrName) for attrName in attrTuple)
itemValueTuple(item, attrTuple) == [k \in DOMAIN attrTuple |-> item[attrTuple[k]]]

\* ItemList.findItems, the index that is built for attrTuple: for every
\* tuple of values the items that have it, in the order of the list
keyMappingOf(items, attrTuple) ==
  [valueTuple \in {itemValueTuple(items[i], attrTuple) : i \in DOMAIN items} |->
     SelectSeq(items, LAMBDA item : itemValueTuple(item, attrTuple) = valueTuple)]

\* ItemList.findItems(**kwargs): the list after the call, with the index
\* for attrTuple, and what is returned: None (isNone), or a list of items
findItems(L, attrTuple, valueTuple) ==
  LET keyMapping == IF attrTuple \in DOMAIN L.mappings THEN L.mappings[attrTuple]
                    ELSE keyMappingOf(L.items, attrTuple)
  IN  [L |-> IF attrTuple \in DOMAIN L.mappings THEN L
             ELSE [L EXCEPT !.mappings =
                     [t \in (DOMAIN @) \cup {attrTuple} |->
                        IF t = attrTuple THEN keyMapping ELSE @[t]]],
       isNone |-> valueTuple \notin DOMAIN keyMapping,
       items |-> IF valueTuple \in DOMAIN keyMapping THEN keyMapping[valueTuple]
                 ELSE <<>>]

\* ItemList.findItem(**kwargs): the list after the call, and the item that
\* is returned or None
findItemIn(L, attrTuple, valueTuple) ==
  LET found == findItems(L, attrTuple, valueTuple)
  IN  [L |-> found.L,
       isNone |-> found.isNone \/ found.items = <<>>,
       items |-> IF found.isNone \/ found.items = <<>> THEN <<>>
                 ELSE <<found.items[1]>>]

\* ItemList.findItem as the backend uses it: the index of the first item
\* that matches, 0 for None
findItem(items, Matches(_)) ==
  IF \E i \in DOMAIN items : Matches(items[i])
  THEN CHOOSE i \in DOMAIN items :
         Matches(items[i]) /\ \A j \in 1..(i - 1) : ~Matches(items[j])
  ELSE 0

findLayerByPathName(ufoLayers, path, name) ==
  findItem(ufoLayers, LAMBDA l : l.path = path /\ l.name = name)

findLayerByFontraName(ufoLayers, fontraLayerName) ==
  findItem(ufoLayers, LAMBDA l : l.fontraLayerName = fontraLayerName)

findSourceByIdentifier(dsSources, identifier) ==
  findItem(dsSources, LAMBDA s : s.identifier = identifier)

findSourceByLocation(dsSources, location) ==
  findItem(dsSources,
           LAMBDA s : locationToTuple(s.location) = locationToTuple(location))

\* DesignspaceBackend.defaultDSSource
defaultDSSource(dsSources) == findItem(dsSources, LAMBDA s : s.isDefault)

UFOLayer(path, name, fontraLayerName) ==
  [path |-> path, name |-> name, fontraLayerName |-> fontraLayerName]

isDefaultLayer(ufoLayer) == ufoLayer.name = DefaultLayerName

DSSource(identifier, name, layer, location, isDefault) ==
  [identifier |-> identifier, name |-> name, layer |-> layer,
   location |-> location, isDefault |-> isDefault]

isSparse(dsSource) == ~isDefaultLayer(dsSource.layer)

\* DSSource.asDSSourceDescriptor
asDSSourceDescriptor(dsSource) ==
  [name |-> dsSource.identifier,
   styleName |-> dsSource.name,
   path |-> dsSource.layer.path,
   layerName |-> IF dsSource.layer.name # DefaultLayerName
                 THEN dsSource.layer.name ELSE NoName,
   location |-> dsSource.location]

\* DSSource.asFontraGlyphSource
\* asFontraGlyphSource with the source's name as the layer alias
asFontraGlyphSourceNamed(dsSource, localDefaultOverride) ==
  [name |-> IF localDefaultOverride # EmptyDict THEN dsSource.name ELSE NoName,
   locationBase |-> dsSource.identifier,
   location |-> localDefaultOverride,
   layerName |-> dsSource.name,
   customData |-> 0]

asFontraGlyphSource(dsSource, localDefaultOverride) ==
  [name |-> IF localDefaultOverride # EmptyDict THEN dsSource.name ELSE NoName,
   locationBase |-> dsSource.identifier,
   location |-> localDefaultOverride,
   layerName |-> dsSource.layer.fontraLayerName,
   customData |-> 0]

\* uniqueNameMaker: name, name#1, name#2, ...
makeUniqueName(name, usedNames) ==
  IF name \notin usedNames
  THEN name
  ELSE LET count == CHOOSE c \in 1..(Cardinality(usedNames) + 1) :
                      /\ (name \o <<"#" \o ToString(c)>>) \notin usedNames
                      /\ \A k \in 1..(c - 1) :
                           (name \o <<"#" \o ToString(k)>>) \in usedNames
       IN  name \o <<"#" \o ToString(count)>>

(***************************************************************************)
(* The file system.  D has                                                 *)
(*   layers      the layers of the UFOs, <<ufoPath, layerName>>, in the    *)
(*               order of creation (layercontents.plist)                   *)
(*   glifs       the .glif files: <<ufoPath, layerName, glyphName>> to the *)
(*               file's modification time and contents                     *)
(*   glyphOrder  per UFO, lib.plist's public.glyphOrder (has: it is there) *)
(*   doc         the .designspace file: its modification time and sources  *)
(*   clock       the time of the last write                                *)
(* The world W is [b, d, ev, touched, raised]: the backend, the disk, the  *)
(* change events the file system has produced and that are not yet         *)
(* delivered, the glyph files another program has written or removed since *)
(* the backend last wrote them, and whether the handler has raised.        *)
(***************************************************************************)
ufoPathsOnDisk(d) == {d.layers[i][1] : i \in DOMAIN d.layers}

fileExists(d, ufoPath, layerName, glyphName) ==
  <<ufoPath, layerName, glyphName>> \in DOMAIN d.glifs

\* os.stat(path).st_mtime if os.path.exists(path) else None
fileModTime(d, ufoPath, layerName, glyphName) ==
  IF fileExists(d, ufoPath, layerName, glyphName)
  THEN d.glifs[<<ufoPath, layerName, glyphName>>].mtime
  ELSE NoTime

\* A UFOGlyph() that was read from no file
NewUFOGlyph ==
  [mtime |-> NoTime, unicodes |-> 0, width |-> 0, height |-> 0,
   components |-> {}, note |-> 0,
   localAxes |-> <<>>, localSources |-> <<>>,
   sourceNameMapping |-> EmptyDict, layerNameMapping |-> EmptyDict,
   customData |-> EmptyDict, sourceCustomData |-> 0]

\* `glyphName in glyphSet`: the GlyphSet's contents, as loaded or last rebuilt
inGlyphSet(b, ufoPath, layerName, glyphName) ==
  <<ufoPath, layerName, glyphName>> \in b.contents

\* GlyphSet.writeGlyph: the file is written at the current time, and the
\* glyph enters the GlyphSet's contents
writeGlyph(W, ufoPath, layerName, glyphName, layerGlyph) ==
  LET key == <<ufoPath, layerName, glyphName>>
      change == IF key \in DOMAIN W.d.glifs THEN ChangeModified ELSE ChangeAdded
      file == [layerGlyph EXCEPT !.mtime = W.d.clock]
  IN  [W EXCEPT
         !.d.glifs = [k \in (DOMAIN @) \cup {key} |-> IF k = key THEN file ELSE @[k]],
         !.b.contents = @ \cup {key},
         !.ev = @ \cup {<<change, GlifPath(ufoPath, layerName, glyphName)>>},
         !.touched = @ \ {key}]

\* GlyphSet.deleteGlyph: os.remove raises when the file is gone
deleteGlyphFile(W, ufoPath, layerName, glyphName) ==
  LET key == <<ufoPath, layerName, glyphName>>
  IN  IF key \notin DOMAIN W.d.glifs
      THEN [W EXCEPT !.raised = TRUE]
      ELSE [W EXCEPT
              !.d.glifs = [k \in (DOMAIN @) \ {key} |-> @[k]],
              !.b.contents = @ \ {key},
              !.ev = @ \cup {<<ChangeDeleted, GlifPath(ufoPath, layerName, glyphName)>>},
              !.touched = @ \ {key}]

\* DesignspaceBackend.updateGlyphSetContents
updateGlyphSetContents(W, ufoPath, layerName) ==
  LET names == {k[3] : k \in {c \in W.b.contents : c[1] = ufoPath /\ c[2] = layerName}}
      files == {FileNameOf(g) : g \in names}
  IN  [W EXCEPT !.b.glifFileNames =
         [f \in (DOMAIN @) \cup files |->
            IF f \in files THEN GlyphNameOfFile(f) ELSE @[f]]]

\* DesignspaceBackend.ensureGlyphInGlyphOrder
ensureGlyphInGlyphOrder(W, ufoPath, glyphName) ==
  LET lib == W.d.glyphOrder[ufoPath]
  IN  IF lib.has /\ glyphName \notin Range(lib.order)
      THEN [W EXCEPT !.d.glyphOrder[ufoPath].order = Append(@, glyphName)]
      ELSE W

\* DesignspaceBackend.ensureGlyphNotInGlyphOrder
ensureGlyphNotInGlyphOrder(W, ufoPath, glyphName) ==
  LET lib == W.d.glyphOrder[ufoPath]
  IN  IF lib.has /\ glyphName \in Range(lib.order)
      THEN [W EXCEPT !.d.glyphOrder[ufoPath].order =
              SelectSeq(@, LAMBDA g : g # glyphName)]
      ELSE W

\* DesignspaceBackend._writeDesignSpaceDocument; UFOBackend overrides it
\* with a method that does nothing
_writeDesignSpaceDocument(W) ==
  IF W.b.class = "UFOBackend" THEN W
  ELSE
  [W EXCEPT
     !.d.doc = [mtime |-> W.d.clock, sources |-> W.b.docSources],
     !.b.dsDocModTime = W.d.clock,
     !.touched = @ \ {DocPath},
     !.ev = @ \cup {<<IF W.d.doc.mtime = NoTime THEN ChangeAdded ELSE ChangeModified,
                      DocPath>>}]

(***************************************************************************)
(* Construction: DesignspaceBackend.__init__ and _initialize               *)
(***************************************************************************)
\* DesignSpaceDocument.findDefault, called by updateAxisInfo: the index of
\* the first source at the default location, 0 for None
findDefault(docSources) ==
  findItem(docSources,
           LAMBDA s : makeDenseLocation(s.location, defaultLocation) = defaultLocation)

\* f"::fontra{sourceIndex:03}"
fontraIndexToken(sourceIndex) ==
  IF sourceIndex < 10 THEN "::fontra00" \o ToString(sourceIndex)
  ELSE "::fontra0" \o ToString(sourceIndex)

makeDSSourceIdentifier(usedSourceNames, sourceIndex, originalSourceName) ==
  LET candidate(counter) ==
        originalSourceName \o <<fontraIndexToken(sourceIndex)>>
          \o (IF counter = 0 THEN <<>> ELSE <<"#" \o ToString(counter)>>)
  IN  IF originalSourceName # NoName /\ originalSourceName \notin usedSourceNames
      THEN originalSourceName
      ELSE candidate(CHOOSE c \in 0..Cardinality(usedSourceNames) :
                       /\ candidate(c) \notin usedSourceNames
                       /\ \A k \in 0..(c - 1) : candidate(k) \in usedSourceNames)

\* The names designspaceLib gives to sources that have no name in the file
TempMasterNames == {"temp_master.0", "temp_master.1"}

\* source.name.startswith("temp_master.")
isTempMaster(name) == name # NoName /\ name[1] \in TempMasterNames

\* An ensureDSSourceNamesAreUnique that leaves the names as they are
keepSourceNames(docSources) == docSources

\* ensureDSSourceNamesAreUnique, the loop over the sources from source i on
RECURSIVE renameSourcesFrom(_, _, _)
renameSourcesFrom(docSources, i, usedSourceNames) ==
  IF i > Len(docSources) THEN docSources
  ELSE Bind(makeDSSourceIdentifier(
              usedSourceNames, i - 1,
              IF isTempMaster(docSources[i].name) THEN NoName ELSE docSources[i].name),
            LAMBDA name :
         renameSourcesFrom([docSources EXCEPT ![i].name = name], i + 1,
                           usedSourceNames \cup {name}))

\* ensureDSSourceNamesAreUnique: the sources of the document the backend keeps
ensureDSSourceNamesAreUnique(docSources) ==
  IF Cardinality({docSources[i].name : i \in DOMAIN docSources}
                   \ ({NoName} \cup {<<t>> : t \in TempMasterNames}))
       = Len(docSources)
  THEN docSources
  ELSE renameSourcesFrom(docSources, 1, {})

\* The loop of loadUFOLayers over dsDoc.sources, from source i on
RECURSIVE loadSourcesFrom(_, _, _, _, _, _)
loadSourcesFrom(docSources, i, dsSources, ufoLayers, usedNames, defaultIndex) ==
  IF i > Len(docSources)
  THEN [dsSources |-> dsSources, ufoLayers |-> ufoLayers]
  ELSE
    LET source == docSources[i]
        ufoLayerName == IF source.layerName # NoName
                        THEN source.layerName ELSE DefaultLayerName
        found == findLayerByPathName(ufoLayers, source.path, ufoLayerName)
        sourceLayer == IF found # 0 THEN ufoLayers[found]
                       ELSE UFOLayer(source.path, ufoLayerName, source.name)
        sourceName == makeUniqueName(
                        IF source.styleName # NoName THEN source.styleName
                        ELSE IF ufoLayerName = DefaultLayerName THEN source.path
                        ELSE source.layerName,
                        usedNames)
    IN  loadSourcesFrom(
          docSources, i + 1,
          Append(dsSources,
                 DSSource(source.name, sourceName, sourceLayer,
                          makeDenseLocation(source.location, defaultLocation),
                          i = defaultIndex)),
          IF found # 0 THEN ufoLayers ELSE Append(ufoLayers, sourceLayer),
          usedNames \cup {sourceName},
          defaultIndex)

_getFontraLayerNameFromUFOLayerName(dsSources, sourceIdentifier, ufoLayerName) ==
  IF /\ HasCaret(ufoLayerName)
     /\ findSourceByIdentifier(dsSources, SplitCaret(ufoLayerName)[1]) # 0
  THEN ufoLayerName
  ELSE sourceIdentifier \o <<"^">> \o ufoLayerName

\* _addNonSourceLayers: the loops over dsDoc.sources (from i) and over the
\* layers of each source's UFO (from j)
RECURSIVE _addNonSourceLayersFrom(_, _, _, _, _, _)
_addNonSourceLayersFrom(d, docSources, dsSources, i, j, ufoLayers) ==
  IF i > Len(docSources) THEN ufoLayers
  ELSE IF j > Len(d.layers)
  THEN _addNonSourceLayersFrom(d, docSources, dsSources, i + 1, 1, ufoLayers)
  ELSE
    LET ufoPath == docSources[i].path
        ufoLayerName == d.layers[j][2]
    IN  IF \/ d.layers[j][1] # ufoPath
           \/ findLayerByPathName(ufoLayers, ufoPath, ufoLayerName) # 0
        THEN _addNonSourceLayersFrom(d, docSources, dsSources, i, j + 1, ufoLayers)
        ELSE _addNonSourceLayersFrom(
               d, docSources, dsSources, i, j + 1,
               Append(ufoLayers,
                      UFOLayer(ufoPath, ufoLayerName,
                               _getFontraLayerNameFromUFOLayerName(
                                 dsSources, docSources[i].name, ufoLayerName))))

loadUFOLayers(d) ==
  LET docSources == ensureDSSourceNamesAreUnique(d.doc.sources)
      loaded == loadSourcesFrom(docSources, 1, <<>>, <<>>, {},
                                findDefault(docSources))
  IN  [dsSources |-> loaded.dsSources,
       ufoLayers |-> _addNonSourceLayersFrom(d, docSources, loaded.dsSources,
                                             1, 1, loaded.ufoLayers)]

\* The contents of the GlyphSets of the registered layers, as read from disk
contentsOfLayers(d, ufoLayers) ==
  {k \in DOMAIN d.glifs :
     \E i \in DOMAIN ufoLayers : ufoLayers[i].path = k[1] /\ ufoLayers[i].name = k[2]}

\* buildGlyphFileNameMapping
buildGlyphFileNameMapping(contents) ==
  [f \in {FileNameOf(k[3]) : k \in contents} |-> GlyphNameOfFile(f)]

\* getGlyphMapFromGlyphSet
getGlyphMapFromGlyphSet(d, ufoLayer) ==
  LET names == {k[3] : k \in {c \in DOMAIN d.glifs :
                                 c[1] = ufoLayer.path /\ c[2] = ufoLayer.name}}
  IN  [g \in names |-> d.glifs[<<ufoLayer.path, ufoLayer.name, g>>].unicodes]

\* _initialize: the fields it sets, given the fields it leaves alone.  It
\* does not touch _glyphDependencies or _implicitDefaultLocationBase, and the
\* object keeps its class (DesignspaceBackend, or its subclass UFOBackend).
_initialize(d, kept) ==
  LET loaded == loadUFOLayers(d)
      default == defaultDSSource(loaded.dsSources)
      contents == contentsOfLayers(d, loaded.ufoLayers)
      defaultIndex == findDefault(d.doc.sources)
  IN  [dsSources |-> loaded.dsSources,
       ufoLayers |-> loaded.ufoLayers,
       docSources |-> ensureDSSourceNamesAreUnique(d.doc.sources),
       docDefaultPath |-> IF defaultIndex = 0 THEN NoName
                          ELSE d.doc.sources[defaultIndex].path,
       dsDocModTime |-> d.doc.mtime,
       contents |-> contents,
       glifFileNames |-> buildGlyphFileNameMapping(contents),
       glyphMap |-> IF default = 0 THEN EmptyDict
                    ELSE getGlyphMapFromGlyphSet(d, loaded.dsSources[default].layer),
       savedGlyphModificationTimes |-> EmptyDict,
       zombieDSSources |-> EmptyDict,
       glyphDependencies |-> kept.glyphDependencies,
       implicitDefaultLocationBase |-> kept.implicitDefaultLocationBase,
       class |-> kept.class]

\* _glyphDependencies: None (isNone), or each glyph's components
NoDependencies == [isNone |-> TRUE, madeOf |-> EmptyDict, id |-> 0]

\* DesignspaceBackend.__init__ (fromPath): a backend opened over the files
newBackend(d) ==
  _initialize(d, [glyphDependencies |-> NoDependencies,
                  implicitDefaultLocationBase |-> NoName,
                  class |-> "DesignspaceBackend"])

(***************************************************************************)
(* getGlyph.  A VariableGlyph is                                           *)
(*   axes     the local axes, a sequence of [name, defaultValue]           *)
(*   sources  a sequence of GlyphSources                                   *)
(*            [name, locationBase, location, layerName, customData]        *)
(*   layers   a sequence of [name, glyph] with distinct names, in the      *)
(*            dict's order; glyph is a StaticGlyph                         *)
(*            [xAdvance, yAdvance, components]                             *)
(*   customData  a dict, with the glyph's note under "note"                *)
(* The result of getGlyph is [raised, absent, glyph].                      *)
(***************************************************************************)
\* GLYPH_NOTE_LIB_KEY
NoteKey == "note"

\* The dict that assigning a sequence of <<key, value>> pairs in order gives
RECURSIVE OFromPairs(_)
OFromPairs(pairs) ==
  IF pairs = <<>> THEN <<>>
  ELSE OSet(OFromPairs(SubSeq(pairs, 1, Len(pairs) - 1)),
            pairs[Len(pairs)][1], pairs[Len(pairs)][2])

\* The layers of a VariableGlyph as a dict without order
LayersAsFunction(layers) ==
  OAsFunction(OFromPairs([i \in DOMAIN layers |-> <<layers[i].name, layers[i].glyph>>]))

NoGlyph == [axes |-> <<>>, sources |-> <<>>, layers |-> EmptyDict,
            customData |-> EmptyDict]

\* ufoLayerToStaticGlyph: the StaticGlyph of a .glif file
ufoLayerToStaticGlyph(file) ==
  [xAdvance |-> file.width,
   yAdvance |-> IF file.height # 0 THEN file.height ELSE NoValue,
   components |-> file.components]

\* _unpackLocalDesignSpace: the GlyphSource of one local source, or the
\* assertion that fails
unpackLocalSource(b, source, localAxisNames, defaultLayerName) ==
  LET ufoLayerName == IF source.layername # NoName
                      THEN source.layername ELSE defaultLayerName
      sourceLocation == Merge(defaultLocation, source.location)
      globalLocation == _getGlobalPortionOfLocation(sourceLocation, localAxisNames)
      si == findSourceByLocation(b.dsSources, globalLocation)
      li == IF si = 0 THEN 0
            ELSE findLayerByPathName(b.ufoLayers, b.dsSources[si].layer.path,
                                     ufoLayerName)
  IN  IF si = 0 \/ li = 0
      THEN [raised |-> TRUE, source |-> <<>>]
      ELSE [raised |-> FALSE,
            source |->
              [name |-> source.name,
               locationBase |-> b.dsSources[si].identifier,
               location |->
                 Restrict(source.location,
                          {k \in DOMAIN source.location :
                             Get(b.dsSources[si].location, k, NoValue)
                               # source.location[k]}),
               layerName |-> b.ufoLayers[li].fontraLayerName,
               customData |-> 0]]

getGlyph(W, glyphName) ==
  LET b == W.b
      d == W.d
      di == defaultDSSource(b.dsSources)
      defaultUFOLayer == b.dsSources[di].layer
      defaultKey == <<defaultUFOLayer.path, defaultUFOLayer.name, glyphName>>
      file == d.glifs[defaultKey]
      localAxisNames == {file.localAxes[i].name : i \in DOMAIN file.localAxes}
      unpacked == [i \in DOMAIN file.localSources |->
                     unpackLocalSource(b, file.localSources[i], localAxisNames,
                                       defaultUFOLayer.name)]
      localSources == [i \in DOMAIN unpacked |-> unpacked[i].source]
      sourceNameMapping == file.sourceNameMapping
      layerNameMapping == file.layerNameMapping
      customData == IF file.note # 0
                    THEN Merge(file.customData, [k \in {NoteKey} |-> file.note])
                    ELSE file.customData
      \* the layers that have the glyph, in the order of the registry
      having == SelectSeq(b.ufoLayers,
                          LAMBDA l : inGlyphSet(b, l.path, l.name, glyphName))
      sourcesCustomData ==
        [n \in {Get(layerNameMapping, having[i].fontraLayerName,
                    having[i].fontraLayerName) : i \in DOMAIN having} |->
           LET last == CHOOSE i \in DOMAIN having :
                 /\ Get(layerNameMapping, having[i].fontraLayerName,
                        having[i].fontraLayerName) = n
                 /\ \A j \in (i + 1)..Len(having) :
                      Get(layerNameMapping, having[j].fontraLayerName,
                          having[j].fontraLayerName) # n
           IN  d.glifs[<<having[last].path, having[last].name, glyphName>>]
                 .sourceCustomData]
      layers == OFromPairs(
                  [i \in DOMAIN having |->
                     <<having[i].fontraLayerName,
                       ufoLayerToStaticGlyph(
                         d.glifs[<<having[i].path, having[i].name, glyphName>>])>>])
      localDefaultOverride ==
        [n \in {file.localAxes[i].name : i \in DOMAIN file.localAxes} \cap axisNames |->
           file.localAxes[CHOOSE i \in DOMAIN file.localAxes :
                            file.localAxes[i].name = n
                            /\ \A j \in (i + 1)..Len(file.localAxes) :
                                 file.localAxes[j].name # n].defaultValue]
      withGlyph == SelectSeq(b.dsSources,
                             LAMBDA s : inGlyphSet(b, s.layer.path, s.layer.name,
                                                   glyphName))
      sources == [i \in DOMAIN withGlyph |->
                    asFontraGlyphSource(withGlyph[i], localDefaultOverride)]
                 \o localSources
      renamedLayers == OFromPairs(
                         [i \in DOMAIN layers |->
                            <<Get(layerNameMapping, layers[i][1], layers[i][1]),
                              layers[i][2]>>])
      finalSources ==
        [i \in DOMAIN sources |->
           LET layerName == Get(layerNameMapping, sources[i].layerName,
                                sources[i].layerName)
           IN  [sources[i] EXCEPT
                  !.layerName = layerName,
                  !.name = Get(sourceNameMapping, @, @),
                  !.customData = Get(sourcesCustomData, layerName, 0)]]
  IN  IF glyphName \notin DOMAIN b.glyphMap
      THEN [raised |-> FALSE, absent |-> TRUE, glyph |-> NoGlyph]
      ELSE IF \/ di = 0
              \/ defaultKey \notin b.contents
              \/ defaultKey \notin DOMAIN d.glifs
      THEN [raised |-> TRUE, absent |-> FALSE, glyph |-> NoGlyph]
      ELSE IF \/ \E i \in DOMAIN unpacked : unpacked[i].raised
              \/ \E i \in DOMAIN having :
                   <<having[i].path, having[i].name, glyphName>> \notin DOMAIN d.glifs
      THEN [raised |-> TRUE, absent |-> FALSE, glyph |-> NoGlyph]
      ELSE [raised |-> FALSE, absent |-> FALSE,
            glyph |-> [axes |-> file.localAxes,
                       sources |-> finalSources,
                       layers |-> OAsFunction(renamedLayers),
                       customData |-> customData]]

(***************************************************************************)
(* Creation of sources, UFOs and layers                                    *)
(***************************************************************************)
\* The name of the designspace file, without its suffix
dsFileName == <<"ds">>

\* _createUFO: the world after it and the UFOLayer it returns
_createUFO(W, sourceName, sourceIdentifier) ==
  LET ufoPath == makeUniqueName(dsFileName \o <<"_">> \o sourceName,
                                ufoPathsOnDisk(W.d))
      ufoLayer == UFOLayer(ufoPath, DefaultLayerName, sourceIdentifier)
  IN  [W |-> [W EXCEPT
                !.d.layers = Append(@, <<ufoPath, DefaultLayerName>>),
                !.d.glyphOrder = [p \in (DOMAIN @) \cup {ufoPath} |->
                                    IF p = ufoPath THEN [has |-> FALSE, order |-> <<>>]
                                    ELSE @[p]],
                !.b.ufoLayers = Append(@, ufoLayer)],
       ufoLayer |-> ufoLayer]

\* _createUFOLayer: the world after it and the UFOLayer it returns
_createUFOLayer(W, glyphName, ufoPath, suggestedLayerName, fontraLayerName) ==
  LET existingLayerNames == {W.d.layers[i][2] :
                               i \in {j \in DOMAIN W.d.layers : W.d.layers[j][1] = ufoPath}}
      candidate(count) ==
        IF count = 0 THEN suggestedLayerName
        ELSE suggestedLayerName \o <<"#" \o ToString(count)>>
      count == CHOOSE c \in 0..Len(W.d.layers) :
                 /\ ~inGlyphSet(W.b, ufoPath, candidate(c), glyphName)
                 /\ \A k \in 0..(c - 1) : inGlyphSet(W.b, ufoPath, candidate(k), glyphName)
      ufoLayerName == candidate(count)
      ufoLayer == UFOLayer(ufoPath, ufoLayerName, fontraLayerName)
  IN  [W |-> [W EXCEPT
                !.d.layers = IF ufoLayerName \in existingLayerNames THEN @
                             ELSE Append(@, <<ufoPath, ufoLayerName>>),
                !.b.ufoLayers = Append(@, ufoLayer)],
       ufoLayer |-> ufoLayer]

_findUFOForLayerName(dsSources, layerName, ufoPath) ==
  LET si == findSourceByIdentifier(dsSources, SplitCaret(layerName)[1])
  IN  IF HasCaret(layerName) /\ si # 0 /\ ~isSparse(dsSources[si])
      THEN [ufoPath |-> dsSources[si].layer.path, layerName |-> SplitCaret(layerName)[2]]
      ELSE [ufoPath |-> ufoPath, layerName |-> layerName]

\* The index of the source a sparse source at this location gets its layer
\* from, 0 when the assertion fails
_findDSSourceForSparseSource(dsSources, location) ==
  LET atPole == Merge(defaultLocation,
                      splitLocationByPolePosition(location, axisPolePositions).atPole)
      poleDSSource == findSourceByLocation(dsSources, atPole)
  IN  IF poleDSSource # 0 THEN poleDSSource ELSE defaultDSSource(dsSources)

\* _createDSSourceForGlyph: the world after it and the DSSource it returns
_createDSSourceForGlyph(W, glyphName, sourceName, layerName, location) ==
  LET sourceIdentifier ==
        makeDSSourceIdentifier(
          {W.b.docSources[i].name : i \in DOMAIN W.b.docSources} \ {NoName},
          Len(W.b.dsSources), NoName)
      notAtPole == splitLocationByPolePosition(location, axisPolePositions).notAtPole
      pole == _findDSSourceForSparseSource(W.b.dsSources, location)
      created == IF notAtPole # EmptyDict
                 THEN _createUFOLayer(W, glyphName, W.b.dsSources[pole].layer.path,
                                      layerName, sourceIdentifier)
                 ELSE _createUFO(W, sourceName, layerName)
  IN  IF notAtPole # EmptyDict /\ pole = 0
      THEN [W |-> [W EXCEPT !.raised = TRUE],
            dsSource |-> DSSource(sourceIdentifier, sourceName,
                                  UFOLayer(NoName, NoName, NoName), location, FALSE)]
      ELSE [W |-> created.W,
            dsSource |-> DSSource(sourceIdentifier, sourceName, created.ufoLayer,
                                  location, FALSE)]

\* _createDefaultSourceAndUFO
_createDefaultSourceAndUFO(W, sourceName) ==
  LET sourceIdentifier == makeDSSourceIdentifier({}, 0, NoName)
      created == _createUFO(W, sourceName, sourceIdentifier)
      dsSource == DSSource(sourceIdentifier, sourceName, created.ufoLayer,
                           defaultLocation, TRUE)
  IN  IF W.b.dsSources # <<>> \/ W.b.docSources # <<>>
      THEN [W EXCEPT !.raised = TRUE]
      ELSE _writeDesignSpaceDocument(
             [created.W EXCEPT
                !.b.dsSources = Append(@, dsSource),
                !.b.docSources = Append(@, asDSSourceDescriptor(dsSource))])

\* getDefaultSourceName
getDefaultSourceName(glyph, sourceName) ==
  LET atDefault == {i \in DOMAIN glyph.sources :
                      makeDenseLocation(glyph.sources[i].location, defaultLocation)
                        = defaultLocation}
  IN  IF atDefault = {} THEN sourceName
      ELSE glyph.sources[CHOOSE i \in atDefault : \A j \in atDefault : i <= j].name

(***************************************************************************)
(* putGlyph                                                                *)
(***************************************************************************)
\* GlyphDependencies.update: the glyph's components replace what was known
dependenciesUpdate(deps, glyphName, componentNames) ==
  [deps EXCEPT !.madeOf =
     IF componentNames = {}
     THEN [g \in (DOMAIN @) \ {glyphName} |-> @[g]]
     ELSE [g \in (DOMAIN @) \cup {glyphName} |->
             IF g = glyphName THEN componentNames ELSE @[g]]]

\* GlyphDependencies.usedBy.get(glyphName, [])
usedBy(deps, glyphName) == {g \in DOMAIN deps.madeOf : glyphName \in deps.madeOf[g]}

\* componentNamesFromGlyph that finds no components
componentNamesFromNoLayer(glyph) == {}

componentNamesFromGlyph(glyph) ==
  UNION {glyph.layers[i].glyph.components : i \in DOMAIN glyph.layers}

\* reverseSparseDict, of a dict with insertion order: a later key with the
\* same value replaces an earlier one
reverseSparseDict(od) ==
  OAsFunction(OFromPairs(
    LET kept == SelectSeq(od, LAMBDA kv : kv[1] # kv[2])
    IN  [i \in DOMAIN kept |-> <<kept[i][2], kept[i][1]>>]))

\* reverseSparseDict of a dict read from a lib: plistlib gives no order the
\* model keeps, among the keys with one value the choice is fixed
reverseStoredDict(d) ==
  LET keys == {k \in DOMAIN d : d[k] # k}
  IN  [v \in {d[k] : k \in keys} |-> CHOOSE k \in keys : d[k] = v]

\* readGlyphOrCreate
readGlyphOrCreate(W, ufoPath, layerName, glyphName, codePoints) ==
  LET key == <<ufoPath, layerName, glyphName>>
  IN  IF ~inGlyphSet(W.b, ufoPath, layerName, glyphName)
      THEN [raised |-> FALSE, glyph |-> [NewUFOGlyph EXCEPT !.unicodes = codePoints]]
      ELSE IF key \notin DOMAIN W.d.glifs
      THEN [raised |-> TRUE, glyph |-> NewUFOGlyph]
      ELSE [raised |-> FALSE, glyph |-> [W.d.glifs[key] EXCEPT !.unicodes = codePoints]]

\* _prepareUFOSourceLayer that tolerates every unknown locationBase
resolveLocationBaseTolerant(b, source) ==
  LET si == findSourceByIdentifier(b.dsSources, source.locationBase)
      known == source.locationBase # NoName /\ si # 0
      unknown == source.locationBase # NoName /\ si = 0
  IN  [raised |-> FALSE,
       implicitDefaultLocationBase |->
         IF unknown /\ b.implicitDefaultLocationBase = NoName
         THEN source.locationBase ELSE b.implicitDefaultLocationBase,
       baseLocation |-> IF known THEN b.dsSources[si].location ELSE EmptyDict]

\* _prepareUFOSourceLayer, up to the location of the source: whether it
\* raises, the identifier it remembers and the location
resolveLocationBase(b, source) ==
  LET si == findSourceByIdentifier(b.dsSources, source.locationBase)
      known == source.locationBase # NoName /\ si # 0
      unknown == source.locationBase # NoName /\ si = 0
  IN  [raised |-> /\ unknown
                  /\ b.implicitDefaultLocationBase # NoName
                  /\ b.implicitDefaultLocationBase # source.locationBase,
       implicitDefaultLocationBase |->
         IF unknown /\ b.implicitDefaultLocationBase = NoName
         THEN source.locationBase ELSE b.implicitDefaultLocationBase,
       baseLocation |-> IF known THEN b.dsSources[si].location ELSE EmptyDict]

\* What _prepareUFOSourceLayer returns: sourceName, layerName and
\* localSourceDict (None unless hasLocalSource)
NoSourceInfo ==
  [sourceName |-> NoName, layerName |-> NoName, hasLocalSource |-> FALSE,
   localSourceDict |-> [name |-> NoName, layername |-> NoName,
                        location |-> EmptyDict]]

\* _prepareUFOSourceLayer, "if dsSource is None": the source at the global
\* location, created and written to the document when there is none
findOrCreateDSSource(W, glyphName, source, globalLocation) ==
  Bind(findSourceByLocation(W.b.dsSources, globalLocation), LAMBDA found :
    IF found # 0 THEN [W |-> W, dsSource |-> W.b.dsSources[found]]
    ELSE Bind(_createDSSourceForGlyph(W, glyphName, source.name, source.layerName,
                                      globalLocation),
              LAMBDA created :
      IF created.W.raised THEN created
      ELSE [W |-> _writeDesignSpaceDocument(
                    [created.W EXCEPT
                       !.b.dsSources = Append(@, created.dsSource),
                       !.b.docSources =
                         Append(@, asDSSourceDescriptor(created.dsSource))]),
            dsSource |-> created.dsSource]))

\* _prepareUFOSourceLayer, "if sparseLocalLocation": the layer of a source
\* on the glyph's own axes
prepareLocalSource(W, glyphName, source, dsSource, sourceLocation,
                   localDefaultLocation, revLayerNameMapping) ==
  Bind(_findUFOForLayerName(
         W.b.dsSources,
         Get(revLayerNameMapping, source.layerName, source.layerName),
         dsSource.layer.path),
       LAMBDA ufo :
    IF dsSource.layer.path # ufo.ufoPath
    THEN [W |-> [W EXCEPT !.raised = TRUE], info |-> NoSourceInfo]
    ELSE
      Bind(findLayerByPathName(W.b.ufoLayers, ufo.ufoPath, ufo.layerName),
           LAMBDA li :
      Bind(IF li # 0 THEN [W |-> W, ufoLayer |-> W.b.ufoLayers[li]]
           ELSE _createUFOLayer(W, glyphName, ufo.ufoPath, ufo.layerName,
                                source.layerName),
           LAMBDA layer :
        [W |-> layer.W,
         info |->
           [sourceName |-> source.name,
            layerName |-> dsSource.identifier \o <<"^">> \o layer.ufoLayer.name,
            hasLocalSource |-> TRUE,
            localSourceDict |->
              [name |-> source.name,
               layername |-> IF layer.ufoLayer.name # DefaultLayerName
                             THEN layer.ufoLayer.name ELSE NoName,
               location |-> makeSparseLocation(
                              sourceLocation,
                              Merge(defaultLocation, localDefaultLocation))]]])))

\* _prepareUFOSourceLayer: the world after it and the names it returns
_prepareUFOSourceLayer(W, glyphName, source, localDefaultLocation, revLayerNameMapping) ==
  Bind(resolveLocationBase(W.b, source), LAMBDA base :
    IF base.raised THEN [W |-> [W EXCEPT !.raised = TRUE], info |-> NoSourceInfo]
    ELSE
      Bind(Merge(Merge(base.baseLocation, localDefaultLocation), source.location),
           LAMBDA sourceLocation0 :
      Bind(Merge(defaultLocation, sourceLocation0), LAMBDA sourceLocation :
      Bind(findOrCreateDSSource(
             [W EXCEPT !.b.implicitDefaultLocationBase =
                base.implicitDefaultLocationBase],
             glyphName, source,
             _getGlobalPortionOfLocation(sourceLocation, DOMAIN localDefaultLocation)),
           LAMBDA src :
        IF src.W.raised THEN [W |-> src.W, info |-> NoSourceInfo]
        ELSE IF \A n \in DOMAIN localDefaultLocation :
                  sourceLocation0[n] = localDefaultLocation[n]
        THEN [W |-> src.W,
              info |-> [NoSourceInfo EXCEPT
                          !.sourceName = src.dsSource.name,
                          !.layerName = src.dsSource.layer.fontraLayerName]]
        ELSE prepareLocalSource(src.W, glyphName, source, src.dsSource,
                                sourceLocation, localDefaultLocation,
                                revLayerNameMapping)))))

\* putGlyph, the body of the loop over glyph.sources after
\* _prepareUFOSourceLayer: the four collections the loop fills
addSourceInfo(acc, W, source, sourceInfo) ==
  [W |-> W,
   sourceNameMapping |->
     IF /\ sourceInfo.sourceName # source.name
        /\ ~(source.locationBase # NoName /\ source.name = NoName)
     THEN SetItem(acc.sourceNameMapping, sourceInfo.sourceName, source.name)
     ELSE acc.sourceNameMapping,
   layerNameMapping |->
     IF sourceInfo.layerName # source.layerName
     THEN OSet(acc.layerNameMapping, sourceInfo.layerName, source.layerName)
     ELSE acc.layerNameMapping,
   localSources |->
     IF sourceInfo.hasLocalSource
     THEN Append(acc.localSources, sourceInfo.localSourceDict)
     ELSE acc.localSources,
   sourcesCustomData |->
     SetItem(acc.sourcesCustomData, sourceInfo.layerName, source.customData)]

\* putGlyph, "Prepare UFO source layers and local sources": the loop over
\* glyph.sources from source i on
RECURSIVE prepareSourcesFrom(_, _, _, _, _, _)
prepareSourcesFrom(glyphName, sources, i, localDefaultLocation, revLayerNameMapping, acc) ==
  IF i > Len(sources) \/ acc.W.raised THEN acc
  ELSE Bind(_prepareUFOSourceLayer(acc.W, glyphName, sources[i],
                                   localDefaultLocation, revLayerNameMapping),
            LAMBDA prepared :
         IF prepared.W.raised THEN [acc EXCEPT !.W = prepared.W]
         ELSE prepareSourcesFrom(
                glyphName, sources, i + 1, localDefaultLocation, revLayerNameMapping,
                addSourceInfo(acc, prepared.W, sources[i], prepared.info)))

\* putGlyph, the body of the loop over glyph.layers: the UFOLayer of a
\* layer, created when there is none, and the name that enters usedLayers
resolveLayer(W, glyphName, layerName0) ==
  Bind(W.b.dsSources[defaultDSSource(W.b.dsSources)].layer.path,
       LAMBDA defaultPath :
  Bind(findLayerByFontraName(W.b.ufoLayers, layerName0), LAMBDA byFontraName :
  Bind(IF byFontraName = 0 /\ HasCaret(layerName0)
       THEN _findUFOForLayerName(W.b.dsSources, layerName0, defaultPath)
       ELSE [ufoPath |-> defaultPath, layerName |-> layerName0],
       LAMBDA ufo :
  Bind(IF byFontraName # 0 THEN byFontraName
       ELSE IF HasCaret(layerName0)
       THEN findLayerByPathName(W.b.ufoLayers, ufo.ufoPath, ufo.layerName)
       ELSE 0,
       LAMBDA found :
    IF found # 0
    THEN [W |-> W, ufoLayer |-> W.b.ufoLayers[found], layerName |-> ufo.layerName,
          renamed |-> FALSE, alias |-> ufo.layerName]
    ELSE Bind(_createUFOLayer(W, glyphName, ufo.ufoPath, ufo.layerName,
                              ufo.layerName),
              LAMBDA created :
           [W |-> created.W, ufoLayer |-> created.ufoLayer,
            layerName |-> created.ufoLayer.fontraLayerName,
            renamed |-> created.ufoLayer.fontraLayerName # ufo.layerName,
            alias |-> ufo.layerName])))))

\* putGlyph, "Gather all UFO layers": the loop over glyph.layers from layer
\* i on.  acc.layers is the list of (layer, ufoLayer).
RECURSIVE gatherLayersFrom(_, _, _, _, _)
gatherLayersFrom(glyphName, glyphLayers, i, revLayerNameMapping, acc) ==
  IF i > Len(glyphLayers) THEN acc
  ELSE Bind(resolveLayer(acc.W, glyphName,
                         Get(revLayerNameMapping, glyphLayers[i].name,
                             glyphLayers[i].name)),
            LAMBDA resolved :
         gatherLayersFrom(
           glyphName, glyphLayers, i + 1, revLayerNameMapping,
           [W |-> resolved.W,
            layerNameMapping |->
              IF resolved.renamed
              THEN OSet(acc.layerNameMapping, resolved.ufoLayer.fontraLayerName,
                        resolved.alias)
              ELSE acc.layerNameMapping,
            layers |-> Append(acc.layers,
                              [layer |-> glyphLayers[i].glyph,
                               ufoLayer |-> resolved.ufoLayer]),
            usedLayers |-> acc.usedLayers \cup {resolved.layerName}]))

\* populateUFOLayerGlyph
populateUFOLayerGlyph(layerGlyph, staticGlyph) ==
  [layerGlyph EXCEPT
     !.width = staticGlyph.xAdvance,
     !.height = IF staticGlyph.yAdvance # NoValue THEN staticGlyph.yAdvance ELSE @,
     !.components = staticGlyph.components]

\* putGlyph, the end of the body of the loop over the gathered layers:
\* writeGlyph, updateGlyphSetContents, ensureGlyphInGlyphOrder
writeLayerGlyph(W, ufoLayer, glyphName, layerGlyph) ==
  Bind(writeGlyph(W, ufoLayer.path, ufoLayer.name, glyphName, layerGlyph),
       LAMBDA W1 :
    IF ~inGlyphSet(W.b, ufoLayer.path, ufoLayer.name, glyphName)
    THEN ensureGlyphInGlyphOrder(
           updateGlyphSetContents(W1, ufoLayer.path, ufoLayer.name),
           ufoLayer.path, glyphName)
    ELSE W1)

\* putGlyph, the body of the loop over the gathered layers.  acc has the
\* world, the default layer's UFOGlyph object (the loop mutates it), the
\* glyph's customData (the loop pops the note) and modTimes.
writeLayer(glyphName, codePoints, item, stored, acc) ==
  Bind(acc.W.b.dsSources[defaultDSSource(acc.W.b.dsSources)].layer,
       LAMBDA defaultUFOLayer :
  Bind(/\ item.ufoLayer.path = defaultUFOLayer.path
       /\ item.ufoLayer.name = defaultUFOLayer.name,
       LAMBDA isDefaultGlyphSet :
  Bind(IF isDefaultGlyphSet
       THEN [raised |-> FALSE,
             glyph |-> [acc.defaultLayerGlyph EXCEPT
                          !.localAxes = stored.localAxes,
                          !.localSources = stored.localSources,
                          !.sourceNameMapping = stored.sourceNameMapping,
                          !.layerNameMapping = stored.layerNameMapping,
                          !.note = Get(acc.customData, NoteKey, 0),
                          !.customData = Restrict(acc.customData,
                                                  (DOMAIN acc.customData) \ {NoteKey})]]
       ELSE readGlyphOrCreate(acc.W, item.ufoLayer.path, item.ufoLayer.name,
                              glyphName, codePoints),
       LAMBDA read :
    IF read.raised THEN [acc EXCEPT !.W.raised = TRUE]
    ELSE
      Bind(populateUFOLayerGlyph(
             [read.glyph EXCEPT
                !.sourceCustomData =
                   Get(stored.sourcesCustomData, item.ufoLayer.fontraLayerName, 0)],
             item.layer),
           LAMBDA layerGlyph :
      Bind(writeLayerGlyph(acc.W, item.ufoLayer, glyphName, layerGlyph),
           LAMBDA W2 :
        [W |-> W2,
         defaultLayerGlyph |-> IF isDefaultGlyphSet THEN layerGlyph
                               ELSE acc.defaultLayerGlyph,
         customData |-> IF isDefaultGlyphSet
                        THEN Restrict(acc.customData,
                                      (DOMAIN acc.customData) \ {NoteKey})
                        ELSE acc.customData,
         modTimes |-> acc.modTimes \cup
                        {fileModTime(W2.d, item.ufoLayer.path, item.ufoLayer.name,
                                     glyphName)}])))))

\* putGlyph, "Write all UFO layers": the loop over the gathered layers
RECURSIVE writeLayersFrom(_, _, _, _, _, _)
writeLayersFrom(glyphName, codePoints, layers, i, stored, acc) ==
  IF i > Len(layers) \/ acc.W.raised THEN acc
  ELSE Bind(writeLayer(glyphName, codePoints, layers[i], stored, acc),
            LAMBDA written :
         writeLayersFrom(glyphName, codePoints, layers, i + 1, stored, written))

\* GlyphSet.deleteGlyph: raises when the glyph is not in the contents
glyphSetDeleteGlyph(W, ufoPath, layerName, glyphName) ==
  IF ~inGlyphSet(W.b, ufoPath, layerName, glyphName)
  THEN [W EXCEPT !.raised = TRUE]
  ELSE deleteGlyphFile(W, ufoPath, layerName, glyphName)

\* The body of the loop over layersToDelete that leaves the glyph order of
\* the UFO alone
pruneLayerKeepingOrder(W, glyphName, layerName) ==
  Bind(W.b.ufoLayers[findLayerByFontraName(W.b.ufoLayers, layerName)],
       LAMBDA ufoLayer :
  Bind(glyphSetDeleteGlyph(W, ufoLayer.path, ufoLayer.name, glyphName),
       LAMBDA W1 :
    IF W1.raised THEN W1
    ELSE updateGlyphSetContents(W1, ufoLayer.path, ufoLayer.name)))

\* putGlyph, the body of the loop over layersToDelete
pruneLayer(W, glyphName, layerName) ==
  Bind(W.b.ufoLayers[findLayerByFontraName(W.b.ufoLayers, layerName)],
       LAMBDA ufoLayer :
  Bind(glyphSetDeleteGlyph(W, ufoLayer.path, ufoLayer.name, glyphName),
       LAMBDA W1 :
    IF W1.raised THEN W1
    ELSE IF isDefaultLayer(ufoLayer)
    THEN ensureGlyphNotInGlyphOrder(
           updateGlyphSetContents(W1, ufoLayer.path, ufoLayer.name),
           ufoLayer.path, glyphName)
    ELSE updateGlyphSetContents(W1, ufoLayer.path, ufoLayer.name)))

\* putGlyph, "Prune unused UFO layers": the loop over layersToDelete
RECURSIVE pruneLayers(_, _, _)
pruneLayers(W, glyphName, layersToDelete) ==
  IF layersToDelete = {} \/ W.raised THEN W
  ELSE Bind(CHOOSE n \in layersToDelete : TRUE, LAMBDA layerName :
       Bind(pruneLayer(W, glyphName, layerName), LAMBDA W1 :
         pruneLayers(W1, glyphName, layersToDelete \ {layerName})))

\* An entry of savedGlyphModificationTimes: None, or a set of times
DeletedEverywhere == [isNone |-> TRUE, times |-> {}]

SavedTimes(times) == [isNone |-> FALSE, times |-> times]

\* putGlyph, up to the default source: glyphMap, the dependencies, and the
\* default source and UFO when there is no source yet
putGlyphMap(W, glyphName, glyph, codePoints) ==
  Bind([W EXCEPT
          !.b.glyphMap = SetItem(@, glyphName, codePoints),
          !.b.glyphDependencies =
             IF @.isNone THEN @
             ELSE dependenciesUpdate(@, glyphName, componentNamesFromGlyph(glyph))],
       LAMBDA W1 :
    IF defaultDSSource(W1.b.dsSources) = 0
    THEN _createDefaultSourceAndUFO(W1, getDefaultSourceName(glyph, <<"Regular">>))
    ELSE W1)

\* {axis.name: axis.defaultValue for axis in glyph.axes}
localDefaultLocationOf(axes) ==
  [n \in {axes[i].name : i \in DOMAIN axes} |->
     axes[CHOOSE i \in DOMAIN axes :
            /\ axes[i].name = n
            /\ \A j \in (i + 1)..Len(axes) : axes[j].name # n].defaultValue]

\* putGlyph from "Prune unused UFO layers" on that adds the times to the
\* ones the ledger has for the glyph
putGlyphPruneAddingTimes(W, glyphName, usedLayers, modTimes) ==
  Bind({W.b.ufoLayers[i].fontraLayerName :
          i \in {j \in DOMAIN W.b.ufoLayers :
                   inGlyphSet(W.b, W.b.ufoLayers[j].path, W.b.ufoLayers[j].name,
                              glyphName)}} \ usedLayers,
       LAMBDA layersToDelete :
  Bind(pruneLayers(W, glyphName, layersToDelete), LAMBDA pruned :
    IF pruned.raised THEN pruned
    ELSE [pruned EXCEPT
            !.b.savedGlyphModificationTimes =
               SetItem(@, glyphName,
                       SavedTimes(modTimes
                                    \cup (IF layersToDelete # {} THEN {NoTime} ELSE {})
                                    \cup (IF glyphName \in DOMAIN @
                                          THEN @[glyphName].times ELSE {})))]))

\* putGlyph, from "Prune unused UFO layers" on
putGlyphPrune(W, glyphName, usedLayers, modTimes) ==
  Bind({W.b.ufoLayers[i].fontraLayerName :
          i \in {j \in DOMAIN W.b.ufoLayers :
                   inGlyphSet(W.b, W.b.ufoLayers[j].path, W.b.ufoLayers[j].name,
                              glyphName)}} \ usedLayers,
       LAMBDA layersToDelete :
  Bind(pruneLayers(W, glyphName, layersToDelete), LAMBDA pruned :
    IF pruned.raised THEN pruned
    ELSE [pruned EXCEPT
            !.b.savedGlyphModificationTimes =
               SetItem(@, glyphName,
                       SavedTimes(modTimes \cup
                                    (IF layersToDelete # {} THEN {NoTime} ELSE {})))]))

\* putGlyph: the world after it; W.raised when it raised, with what it had
\* changed before
putGlyph(W, glyphName, glyph, codePoints) ==
  Bind(putGlyphMap(W, glyphName, glyph, codePoints), LAMBDA W2 :
    IF W2.raised THEN W2
    ELSE
      Bind(W2.b.dsSources[defaultDSSource(W2.b.dsSources)].layer,
           LAMBDA defaultUFOLayer :
      Bind(readGlyphOrCreate(W2, defaultUFOLayer.path, defaultUFOLayer.name,
                             glyphName, codePoints),
           LAMBDA read :
        IF read.raised THEN [W2 EXCEPT !.raised = TRUE]
        ELSE
          Bind(prepareSourcesFrom(
                 glyphName, glyph.sources, 1, localDefaultLocationOf(glyph.axes),
                 reverseStoredDict(read.glyph.layerNameMapping),
                 [W |-> W2, sourceNameMapping |-> EmptyDict,
                  layerNameMapping |-> <<>>, localSources |-> <<>>,
                  sourcesCustomData |-> EmptyDict]),
               LAMBDA prepared :
            IF prepared.W.raised THEN prepared.W
            ELSE
              Bind(gatherLayersFrom(
                     glyphName, glyph.layers, 1,
                     reverseSparseDict(prepared.layerNameMapping),
                     [W |-> prepared.W,
                      layerNameMapping |-> prepared.layerNameMapping,
                      layers |-> <<>>, usedLayers |-> {}]),
                   LAMBDA gathered :
              Bind(writeLayersFrom(
                     glyphName, codePoints, gathered.layers, 1,
                     [localAxes |-> glyph.axes,
                      localSources |-> prepared.localSources,
                      sourceNameMapping |-> prepared.sourceNameMapping,
                      layerNameMapping |-> OAsFunction(gathered.layerNameMapping),
                      sourcesCustomData |-> prepared.sourcesCustomData],
                     [W |-> gathered.W, defaultLayerGlyph |-> read.glyph,
                      customData |-> glyph.customData, modTimes |-> {}]),
                   LAMBDA written :
                IF written.W.raised THEN written.W
                ELSE putGlyphPrune(written.W, glyphName, gathered.usedLayers,
                                   written.modTimes)))))))

(***************************************************************************)
(* deleteGlyph                                                             *)
(***************************************************************************)
\* deleteGlyph that removes the glyph from the layers of the default
\* source's UFO only
deleteFromDefaultUFOOnly(W, ufoLayer, glyphName) ==
  IF \/ ~inGlyphSet(W.b, ufoLayer.path, ufoLayer.name, glyphName)
     \/ ufoLayer.path # W.b.docDefaultPath
  THEN W
  ELSE Bind(glyphSetDeleteGlyph(W, ufoLayer.path, ufoLayer.name, glyphName),
            LAMBDA W1 :
         IF ~W1.raised /\ isDefaultLayer(ufoLayer)
         THEN ensureGlyphNotInGlyphOrder(W1, ufoLayer.path, glyphName)
         ELSE W1)

\* deleteGlyph, the body of the loop over self.ufoLayers
deleteFromLayer(W, ufoLayer, glyphName) ==
  IF ~inGlyphSet(W.b, ufoLayer.path, ufoLayer.name, glyphName) THEN W
  ELSE Bind(glyphSetDeleteGlyph(W, ufoLayer.path, ufoLayer.name, glyphName),
            LAMBDA W1 :
         IF ~W1.raised /\ isDefaultLayer(ufoLayer)
         THEN ensureGlyphNotInGlyphOrder(W1, ufoLayer.path, glyphName)
         ELSE W1)

\* deleteGlyph, the loop over self.ufoLayers from layer i on
RECURSIVE deleteFromLayersFrom(_, _, _)
deleteFromLayersFrom(W, glyphName, i) ==
  IF i > Len(W.b.ufoLayers) \/ W.raised THEN W
  ELSE Bind(deleteFromLayer(W, W.b.ufoLayers[i], glyphName), LAMBDA W1 :
         deleteFromLayersFrom(W1, glyphName, i + 1))

\* deleteGlyph without the check that the glyph exists
deleteGlyphUnchecked(W, glyphName) ==
  Bind(deleteFromLayersFrom(W, glyphName, 1), LAMBDA W1 :
    IF W1.raised THEN W1
    ELSE [W1 EXCEPT
            !.b.glyphMap = DelItem(@, glyphName),
            !.b.savedGlyphModificationTimes =
               SetItem(@, glyphName, DeletedEverywhere),
            !.b.glyphDependencies =
               IF @.isNone THEN @ ELSE dependenciesUpdate(@, glyphName, {})])

deleteGlyph(W, glyphName) ==
  IF glyphName \notin DOMAIN W.b.glyphMap THEN [W EXCEPT !.raised = TRUE]
  ELSE Bind(deleteFromLayersFrom(W, glyphName, 1), LAMBDA W1 :
         IF W1.raised THEN W1
         ELSE [W1 EXCEPT
                 !.b.glyphMap = DelItem(@, glyphName),
                 !.b.savedGlyphModificationTimes =
                    SetItem(@, glyphName, DeletedEverywhere),
                 !.b.glyphDependencies =
                    IF @.isNone THEN @ ELSE dependenciesUpdate(@, glyphName, {})])

(***************************************************************************)
(* putAxes and putSources.  A FontSource is [name, location, isSparse];    *)
(* the sources given to putSources are a dict from identifiers to          *)
(* FontSources whose order of insertion is observed: a sequence of         *)
(* <<identifier, fontSource>> with distinct identifiers.                   *)
(***************************************************************************)
\* a < b for two lists of numbers of the same length
listBefore(a, b) ==
  \E i \in DOMAIN a : a[i] < b[i] /\ \A j \in 1..(i - 1) : a[j] = b[j]

\* sorted(items, key=...), which is stable, on a sequence of <<key, item>>
RECURSIVE sortedByKey(_)
sortedByKey(pairs) ==
  IF pairs = <<>>
  THEN <<>>
  ELSE Bind(sortedByKey(SubSeq(pairs, 1, Len(pairs) - 1)), LAMBDA rest :
         SelectSeq(rest, LAMBDA y : ~listBefore(pairs[Len(pairs)][1], y[1]))
           \o <<pairs[Len(pairs)]>>
           \o SelectSeq(rest, LAMBDA y : listBefore(pairs[Len(pairs)][1], y[1])))

\* The items of a sorted sequence of <<key, item>>
itemsOf(pairs) == [i \in DOMAIN pairs |-> pairs[i][2]]

\* sortedSourceDescriptors
sortedSourceDescriptors(newSourceDescriptors, oldSourceDescriptors, axisOrder) ==
  LET byLocation ==
        itemsOf(sortedByKey(
          [i \in DOMAIN newSourceDescriptors |->
             <<[a \in DOMAIN axisOrder |->
                  newSourceDescriptors[i].location[axisOrder[a]]],
               newSourceDescriptors[i]>>]))
      bucketOfName(name) ==
        findItem(oldSourceDescriptors, LAMBDA old : old.name = name)
      named(k) == {j \in 1..k : bucketOfName(byLocation[j].name) # 0}
      bucket(k) ==
        IF named(k) = {} THEN 0
        ELSE bucketOfName(
               byLocation[CHOOSE j \in named(k) : \A h \in named(k) : h <= j].name)
  IN  itemsOf(sortedByKey(
        [k \in DOMAIN byLocation |-> <<<<bucket(k)>>, byLocation[k]>>]))

\* putAxes, called with the axes and mappings the document has
putAxes(W) ==
  Bind(_writeDesignSpaceDocument(W), LAMBDA W1 :
  Bind(loadUFOLayers(W1.d), LAMBDA loaded :
  Bind(findDefault(W1.d.doc.sources), LAMBDA defaultIndex :
    [W1 EXCEPT
       !.b.docDefaultPath = IF defaultIndex = 0 THEN NoName
                            ELSE W1.d.doc.sources[defaultIndex].path,
       !.b.dsSources = loaded.dsSources,
       !.b.ufoLayers = loaded.ufoLayers])))

\* The loop of putSources over the sorted sources, from source i on; acc is
\* the world and newDSSources
RECURSIVE putSourcesFrom(_, _, _)
putSourcesFrom(sources, i, acc) ==
  IF i > Len(sources) \/ acc.W.raised THEN acc
  ELSE
    LET W == acc.W
        sourceIdentifier == sources[i][1]
        fontSource == sources[i][2]
        denseSourceLocation == makeDenseLocation(fontSource.location, defaultLocation)
        byIdentifier == findSourceByIdentifier(W.b.dsSources, sourceIdentifier)
        revived == byIdentifier = 0 /\ sourceIdentifier \in DOMAIN W.b.zombieDSSources
        byLocation == IF byIdentifier # 0 \/ revived THEN 0
                      ELSE findSourceByLocation(W.b.dsSources, denseSourceLocation)
        W1 == IF revived
              THEN [W EXCEPT !.b.zombieDSSources = DelItem(@, sourceIdentifier)]
              ELSE W
        pole == _findDSSourceForSparseSource(acc.newDSSources, denseSourceLocation)
    IN  IF byIdentifier # 0 \/ revived \/ byLocation # 0
        THEN Bind(IF byIdentifier # 0 THEN W.b.dsSources[byIdentifier]
                  ELSE IF revived THEN W.b.zombieDSSources[sourceIdentifier]
                  ELSE W.b.dsSources[byLocation],
                  LAMBDA dsSource :
               IF isSparse(dsSource) # fontSource.isSparse
               THEN [acc EXCEPT !.W = [W1 EXCEPT !.raised = TRUE]]
               ELSE putSourcesFrom(
                      sources, i + 1,
                      [W |-> W1,
                       newDSSources |->
                         Append(acc.newDSSources,
                                [dsSource EXCEPT
                                   !.identifier = sourceIdentifier,
                                   !.name = fontSource.name,
                                   !.location = denseSourceLocation])]))
        ELSE IF fontSource.isSparse /\ pole = 0
        THEN [acc EXCEPT !.W = [W1 EXCEPT !.raised = TRUE]]
        ELSE Bind(IF ~fontSource.isSparse
                  THEN _createUFO(W1, fontSource.name, sourceIdentifier)
                  ELSE _createUFOLayer(W1, "", acc.newDSSources[pole].layer.path,
                                       fontSource.name, sourceIdentifier),
                  LAMBDA created :
               putSourcesFrom(
                 sources, i + 1,
                 [W |-> created.W,
                  newDSSources |->
                    Append(acc.newDSSources,
                           DSSource(sourceIdentifier, fontSource.name,
                                    created.ufoLayer, denseSourceLocation,
                                    denseSourceLocation = defaultLocation))]))

\* putSources: the world after it; W.raised when it raised, with what it had
\* changed before.  The callbacks of the subscribers, which it awaits last
\* with the pattern {"glyphs": None}, hold no state of the backend.
putSources(W, sources) ==
  Bind(putSourcesFrom(
         itemsOf(sortedByKey(
           [i \in DOMAIN sources |->
              <<<<IF sources[i][2].isSparse THEN 1 ELSE 0>>, sources[i]>>])),
         1, [W |-> W, newDSSources |-> <<>>]),
       LAMBDA looped :
    IF looped.W.raised THEN looped.W
    ELSE
      Bind(IF looped.newDSSources = <<>> /\ defaultDSSource(W.b.dsSources) # 0
           THEN <<W.b.dsSources[defaultDSSource(W.b.dsSources)]>>
           ELSE looped.newDSSources,
           LAMBDA newDSSources :
      Bind(sortedSourceDescriptors(
             [i \in DOMAIN newDSSources |-> asDSSourceDescriptor(newDSSources[i])],
             looped.W.b.docSources,
             [a \in DOMAIN FontAxes |-> FontAxes[a].name]),
           LAMBDA docSources :
        _writeDesignSpaceDocument(
          [looped.W EXCEPT
             !.b.zombieDSSources =
                Merge(@, [id \in {W.b.dsSources[k].identifier : k \in DOMAIN W.b.dsSources}
                                  \ OKeys(sources) |->
                            W.b.dsSources[
                              CHOOSE k \in DOMAIN W.b.dsSources :
                                /\ W.b.dsSources[k].identifier = id
                                /\ \A h \in DOMAIN W.b.dsSources :
                                     W.b.dsSources[h].identifier = id => h <= k]]),
             !.b.dsSources = newDSSources,
             !.b.docSources = docSources,
             !.b.ufoLayers =
                _addNonSourceLayersFrom(
                  looped.W.d, docSources, newDSSources, 1, 1,
                  [i \in DOMAIN newDSSources |-> newDSSources[i].layer])]))))

(***************************************************************************)
(* Kerning                                                                 *)
(***************************************************************************)
\* The merge that appends all of the second list
mergeKernGroupsAppending(groupsA, groupsB) ==
  [groupName \in (DOMAIN groupsA) \cup (DOMAIN groupsB) |->
     IF groupName \notin DOMAIN groupsA THEN groupsB[groupName]
     ELSE IF groupName \notin DOMAIN groupsB THEN groupsA[groupName]
     ELSE groupsA[groupName] \o groupsB[groupName]]

\* mergeKernGroups: groups are dicts from group names to lists of glyph names
mergeKernGroups(groupsA, groupsB) ==
  [groupName \in (DOMAIN groupsA) \cup (DOMAIN groupsB) |->
     IF groupName \notin DOMAIN groupsA THEN groupsB[groupName]
     ELSE IF groupName \notin DOMAIN groupsB THEN groupsA[groupName]
     ELSE IF groupsA[groupName] = groupsB[groupName] THEN groupsA[groupName]
     ELSE groupsA[groupName]
            \o SelectSeq(groupsB[groupName],
                         LAMBDA n : n \notin Range(groupsA[groupName]))]

\* prefixGroups: the name of a group is a sequence of tokens
prefixGroups(groups, prefix) ==
  [k \in {<<prefix>> \o groupName : groupName \in DOMAIN groups} |-> groups[Tail(k)]]

\* "public.kern1." + left[1:] if left.startswith("@") else left
addPrefix(name, prefix) ==
  IF name # <<>> /\ Head(name) = "@" THEN <<prefix>> \o Tail(name) ELSE name

\* writeGroups and writeKerning: groups.plist and kerning.plist of a UFO get
\* the given contents.  D has
\*   groups   per UFO, the kerning groups: group name to member list
\*   kerning  per UFO, the kerning: <<left, right>> to value
writeGroups(W, ufoPath, groups) == [W EXCEPT !.d.groups = SetItem(@, ufoPath, groups)]

writeKerning(W, ufoPath, ufoKerning) ==
  [W EXCEPT !.d.kerning = SetItem(@, ufoPath, ufoKerning)]

\* kerningPerSource of putKerning: values is a dict from <<left, right>> to
\* the list of values, one per source identifier, NoValue for None
kerningPerSource(kerningTable) ==
  LET ids == kerningTable.sourceIdentifiers
      zipped(pair) == {i \in DOMAIN ids : i <= Len(kerningTable.values[pair])}
      given(id, pair) == {i \in zipped(pair) :
                           ids[i] = id /\ kerningTable.values[pair][i] # NoValue}
      prefixed(pair) == <<addPrefix(pair[1], "public.kern1."),
                          addPrefix(pair[2], "public.kern2.")>>
  IN  [id \in {ids[i] : i \in {j \in DOMAIN ids :
                                 \E pair \in DOMAIN kerningTable.values :
                                   given(ids[j], pair) # {}}} |->
         [k \in {prefixed(pair) : pair \in {q \in DOMAIN kerningTable.values :
                                              given(id, q) # {}}} |->
            LET pair == CHOOSE q \in DOMAIN kerningTable.values :
                          prefixed(q) = k /\ given(id, q) # {}
            IN  kerningTable.values[pair][CHOOSE i \in given(id, pair) :
                                            \A j \in given(id, pair) : j <= i]]]

\* The loop of putKerning over self.dsSources, from source i on
RECURSIVE writeKerningFrom(_, _, _, _)
writeKerningFrom(W, kernType, kerningTable, i) ==
  IF i > Len(W.b.dsSources) THEN W
  ELSE IF isSparse(W.b.dsSources[i]) \/ kernType # "kern"
  THEN writeKerningFrom(W, kernType, kerningTable, i + 1)
  ELSE writeKerningFrom(
         writeKerning(
           writeGroups(W, W.b.dsSources[i].layer.path,
                       Merge(prefixGroups(kerningTable.groupsSide1, "public.kern1."),
                             prefixGroups(kerningTable.groupsSide2, "public.kern2."))),
           W.b.dsSources[i].layer.path,
           Get(kerningPerSource(kerningTable), W.b.dsSources[i].identifier, EmptyDict)),
         kernType, kerningTable, i + 1)

\* putKerning that writes without looking at the source identifiers
putKerningUnchecked(W, kerning) ==
  IF kerning = <<>> THEN W
  ELSE writeKerningFrom(W, kerning[1][1], kerning[1][2], 1)

\* putKerning: kerning is a dict from kernType to Kerning, a sequence of
\* <<kernType, kerningTable>> in the dict's order
RECURSIVE putKerning(_, _)
putKerning(W, kerning) ==
  IF kerning = <<>> THEN W
  ELSE
    LET kerningTable == kerning[1][2]
        ids == kerningTable.sourceIdentifiers
        found == [i \in DOMAIN ids |-> findSourceByIdentifier(W.b.dsSources, ids[i])]
    IN  IF \E i \in DOMAIN ids : found[i] = 0
        THEN [W EXCEPT !.raised = TRUE]
        ELSE IF \E i \in DOMAIN ids : isSparse(W.b.dsSources[found[i]])
        THEN [W EXCEPT !.raised = TRUE]
        ELSE putKerning(writeKerningFrom(W, kerning[1][1], kerningTable, 1),
                        Tail(kerning))

(***************************************************************************)
(* The file systems a backend is opened over                               *)
(***************************************************************************)
RegularPath == <<"Regular.ufo">>

BoldPath == <<"Bold.ufo">>

RegularId == <<"regular">>

BoldId == <<"bold">>

\* A .glif file as another program wrote it at time t
GlifFile(t, width, components) ==
  [NewUFOGlyph EXCEPT !.mtime = t, !.width = width, !.components = components]

\* A designspace file without sources, next to no UFO (test: newFontraFont)
EmptyDisk ==
  [layers |-> <<>>, glifs |-> EmptyDict, glyphOrder |-> EmptyDict,
   doc |-> [mtime |-> 0, sources |-> <<>>], clock |-> 0,
   groups |-> EmptyDict, kerning |-> EmptyDict]

\* Two non-sparse sources, at the default and at the maximum of the axis,
\* that both have the glyph "A"; the default source also has "B", which
\* has "A" as a component
TwoSourceDisk ==
  [layers |-> << <<RegularPath, DefaultLayerName>>, <<BoldPath, DefaultLayerName>> >>,
   glifs |-> [k \in {<<RegularPath, DefaultLayerName, "A">>,
                     <<BoldPath, DefaultLayerName, "A">>,
                     <<RegularPath, DefaultLayerName, "B">>} |->
                IF k[3] = "B" THEN GlifFile(0, 6, {"A"})
                ELSE IF k[1] = RegularPath THEN GlifFile(0, 5, {})
                ELSE GlifFile(0, 7, {})],
   glyphOrder |-> [p \in {RegularPath, BoldPath} |->
                     IF p = RegularPath THEN [has |-> TRUE, order |-> <<"A", "B">>]
                     ELSE [has |-> FALSE, order |-> <<>>]],
   doc |-> [mtime |-> 0,
            sources |-> <<[name |-> RegularId, styleName |-> <<"Regular">>,
                           path |-> RegularPath, layerName |-> NoName,
                           location |-> [n \in {"wght"} |-> 0]],
                          [name |-> BoldId, styleName |-> <<"Bold">>,
                           path |-> BoldPath, layerName |-> NoName,
                           location |-> [n \in {"wght"} |-> 2]]>>],
   clock |-> 0,
   groups |-> EmptyDict, kerning |-> EmptyDict]

\* The world when a backend has been opened over the files
OpenedOver(d) ==
  [b |-> newBackend(d), d |-> d, ev |-> {}, touched |-> {}, raised |-> FALSE]

\* The file system's clock, which has advanced when a handler runs
Tick(W) == [W EXCEPT !.d.clock = @ + 1, !.raised = FALSE]

(***************************************************************************)
(* The file watcher and the reconciliation of external changes.  A change  *)
(* event is <<change, path>>; the path of a glyph file is                  *)
(* <<"glif", ufoPath, layerName, fileName>>.                               *)
(***************************************************************************)
isGlif(path) == path[1] = "glif"

isDesignspace(path) == path[1] = "designspace"

\* os.path.exists(path)
pathExists(d, path) ==
  IF isGlif(path)
  THEN <<path[2], path[3], GlyphNameOfFile(path[4])>> \in DOMAIN d.glifs
  ELSE d.doc.mtime # NoTime

\* The order of str on the path names the model uses
SortedPathNames ==
  <<BoldPath, RegularPath, dsFileName \o <<"_">> \o <<"Regular">>,
    DefaultLayerName, <<"M">>, <<"bg">>,
    FileNameOf("A"), FileNameOf("B"), FileNameOf("C")>>

nameRank(n) ==
  IF n \in Range(SortedPathNames)
  THEN CHOOSE i \in DOMAIN SortedPathNames : SortedPathNames[i] = n
  ELSE Len(SortedPathNames) + 1

\* (change, path) < (change, path) of sorted(changes)
changeBefore(e, f) ==
  LET ke == <<e[1], nameRank(e[2][2]), nameRank(e[2][3]), nameRank(e[2][4])>>
      kf == <<f[1], nameRank(f[2][2]), nameRank(f[2][3]), nameRank(f[2][4])>>
  IN  \E i \in 1..4 : ke[i] < kf[i] /\ \A j \in 1..(i - 1) : ke[j] = kf[j]

\* sorted(changes), as a sequence
RECURSIVE sortedChanges(_)
sortedChanges(changes) ==
  IF changes = {} THEN <<>>
  ELSE Bind(CHOOSE x \in changes : \A y \in changes \ {x} : ~changeBefore(y, x),
            LAMBDA first : <<first>> \o sortedChanges(changes \ {first}))

\* cleanupWatchFilesChanges without the choice the file system decides: the
\* first event of every path is kept
keepFirstEvent(d, changes) ==
  {e \in changes : \A f \in changes : f[2] = e[2] => e[1] <= f[1]}

\* cleanupWatchFilesChanges, the loop over sorted(changes) from event i on
RECURSIVE cleanupFrom(_, _, _, _)
cleanupFrom(d, events, i, perPath) ==
  IF i > Len(events) THEN perPath
  ELSE cleanupFrom(d, events, i + 1,
         IF events[i][2] \in DOMAIN perPath
         THEN IF events[i][1] = ChangeDeleted /\ ~pathExists(d, events[i][2])
              THEN [perPath EXCEPT ![events[i][2]] = ChangeDeleted]
              ELSE perPath
         ELSE (events[i][2] :> events[i][1]) @@ perPath)

\* cleanupWatchFilesChanges
cleanupWatchFilesChanges(d, changes) ==
  Bind(cleanupFrom(d, sortedChanges(changes), 1, <<>>), LAMBDA perPath :
    {<<perPath[path], path>> : path \in DOMAIN perPath})

NoChangedItems ==
  [changedGlyphs |-> {}, newGlyphs |-> {}, deletedGlyphs |-> {},
   rebuildGlyphSetContents |-> FALSE]

\* _analyzeExternalGlyphChanges, the end: the glyph is known; it is a
\* changed glyph when the file's time is not one the backend saved
compareModificationTime(W, items, path, glyphName) ==
  Bind(fileModTime(W.d, path[2], path[3], GlyphNameOfFile(path[4])), LAMBDA mtime :
    IF glyphName \notin DOMAIN W.b.savedGlyphModificationTimes
    THEN [items EXCEPT !.changedGlyphs = @ \cup {glyphName}]
    ELSE Bind(W.b.savedGlyphModificationTimes[glyphName], LAMBDA savedMTimes :
           IF ~savedMTimes.isNone /\ mtime \notin savedMTimes.times
           THEN [items EXCEPT !.changedGlyphs = @ \cup {glyphName}]
           ELSE items))

\* _analyzeExternalGlyphChanges, change == Change.deleted
analyzeDeleted(acc, path) ==
  Bind([acc EXCEPT !.changedItems.rebuildGlyphSetContents = TRUE], LAMBDA marked :
    IF acc.W.b.docDefaultPath = NoName
    THEN [marked EXCEPT !.W.raised = TRUE]
    ELSE IF path[2] = acc.W.b.docDefaultPath /\ path[3] = DefaultLayerName
    THEN IF path[4] \notin DOMAIN acc.W.b.glifFileNames
         THEN [marked EXCEPT !.W.raised = TRUE]
         ELSE [W |-> [acc.W EXCEPT !.b.glifFileNames = DelItem(@, path[4])],
               changedItems |->
                 compareModificationTime(
                   acc.W,
                   [marked.changedItems EXCEPT
                      !.deletedGlyphs = @ \cup {acc.W.b.glifFileNames[path[4]]}],
                   path, acc.W.b.glifFileNames[path[4]])]
    ELSE IF path[4] \notin DOMAIN acc.W.b.glifFileNames
    THEN marked
    ELSE [marked EXCEPT
            !.changedItems =
               compareModificationTime(acc.W, @, path,
                                       acc.W.b.glifFileNames[path[4]])])

\* _analyzeExternalGlyphChanges, change == Change.added
analyzeAdded(acc, path) ==
  Bind([acc EXCEPT !.changedItems.rebuildGlyphSetContents = TRUE], LAMBDA marked :
    IF path[4] \in DOMAIN acc.W.b.glifFileNames
    THEN [marked EXCEPT
            !.changedItems =
               compareModificationTime(acc.W, @, path,
                                       acc.W.b.glifFileNames[path[4]])]
    ELSE IF ~pathExists(acc.W.d, path)
    THEN [marked EXCEPT !.W.raised = TRUE]
    ELSE [marked EXCEPT
            !.W.b.glifFileNames = SetItem(@, path[4], GlyphNameOfFile(path[4])),
            !.changedItems.newGlyphs = @ \cup {GlyphNameOfFile(path[4])}])

\* _analyzeExternalGlyphChanges, change == Change.modified
analyzeModified(acc, path) ==
  IF path[4] \notin DOMAIN acc.W.b.glifFileNames THEN acc
  ELSE [acc EXCEPT
          !.changedItems =
             compareModificationTime(acc.W, @, path, acc.W.b.glifFileNames[path[4]])]

\* _analyzeExternalGlyphChanges: acc is the world (glifFileNames changes)
\* and changedItems
_analyzeExternalGlyphChanges(acc, change, path) ==
  IF change = ChangeDeleted THEN analyzeDeleted(acc, path)
  ELSE IF change = ChangeAdded THEN analyzeAdded(acc, path)
  ELSE analyzeModified(acc, path)

\* _analyzeExternalChanges, the loop over sorted(changes)
RECURSIVE analyzeChangesFrom(_, _)
analyzeChangesFrom(acc, changes) ==
  IF changes = {} \/ acc.W.raised THEN acc
  ELSE Bind(CHOOSE x \in changes : \A y \in changes \ {x} : changeBefore(x, y),
            LAMBDA e :
       Bind(IF isGlif(e[2]) THEN _analyzeExternalGlyphChanges(acc, e[1], e[2])
            ELSE acc,
            LAMBDA analyzed :
         analyzeChangesFrom(analyzed, changes \ {e})))

\* A rebuild that leaves the listings as they are in memory
keepContents(W) == W

\* GlyphSet.rebuildContents, for every layer of the registry
rebuildContents(W) == [W EXCEPT !.b.contents = contentsOfLayers(W.d, W.b.ufoLayers)]

\* _analyzeExternalChanges that takes every event for the document as an
\* external change
_analyzeExternalChangesOfDocument(W, changes) ==
  IF \E e \in changes : isDesignspace(e[2])
  THEN [isNone |-> TRUE,
        W |-> [W EXCEPT !.b.dsDocModTime = W.d.doc.mtime],
        changedItems |-> NoChangedItems]
  ELSE Bind(analyzeChangesFrom([W |-> W, changedItems |-> NoChangedItems], changes),
            LAMBDA analyzed :
         [isNone |-> FALSE,
          W |-> IF analyzed.changedItems.rebuildGlyphSetContents
                   /\ ~analyzed.W.raised
                THEN rebuildContents(analyzed.W) ELSE analyzed.W,
          changedItems |-> analyzed.changedItems])

\* _analyzeExternalChanges: isNone when the document changed externally
_analyzeExternalChanges(W, changes) ==
  IF /\ \E e \in changes : isDesignspace(e[2])
     /\ W.b.dsDocModTime # W.d.doc.mtime
  THEN [isNone |-> TRUE,
        W |-> [W EXCEPT !.b.dsDocModTime = W.d.doc.mtime],
        changedItems |-> NoChangedItems]
  ELSE Bind(analyzeChangesFrom([W |-> W, changedItems |-> NoChangedItems], changes),
            LAMBDA analyzed :
         [isNone |-> FALSE,
          W |-> IF analyzed.changedItems.rebuildGlyphSetContents
                   /\ ~analyzed.W.raised
                THEN rebuildContents(analyzed.W) ELSE analyzed.W,
          changedItems |-> analyzed.changedItems])

\* A reload pattern: None (isNone), or {"glyphs": ..., "glyphMap": None}
\* with the keys it has; {} is EmptyPattern
EmptyPattern == [isNone |-> FALSE, glyphs |-> {}, glyphMap |-> FALSE]

ReloadEverything == [isNone |-> TRUE, glyphs |-> {}, glyphMap |-> FALSE]

\* A report that flags the glyph map for every new or deleted glyph and
\* leaves the glyph map as it is
reportWithoutUpdate(W, items) ==
  [W |-> W,
   reloadPattern |-> [isNone |-> FALSE,
                      glyphs |-> items.changedGlyphs,
                      glyphMap |-> items.newGlyphs \cup items.deletedGlyphs # {}]]

\* processExternalChanges, after _analyzeExternalChanges: glyphMapUpdates
\* and the reload pattern
updateGlyphMap(W, items) ==
  Bind(defaultDSSource(W.b.dsSources), LAMBDA di :
    IF items.newGlyphs # {} /\ di = 0
    THEN [W |-> [W EXCEPT !.raised = TRUE], reloadPattern |-> EmptyPattern]
    ELSE
      Bind(IF di = 0 THEN {}
           ELSE {g \in items.newGlyphs :
                   /\ inGlyphSet(W.b, W.b.dsSources[di].layer.path,
                                 W.b.dsSources[di].layer.name, g)
                   /\ fileExists(W.d, W.b.dsSources[di].layer.path,
                                 W.b.dsSources[di].layer.name, g)},
           LAMBDA found :
      Bind(items.deletedGlyphs \cap DOMAIN W.b.glyphMap, LAMBDA deleted :
        [W |-> [W EXCEPT !.b.glyphMap =
                  [g \in ((DOMAIN @) \cup found) \ deleted |->
                     IF g \in found
                     THEN W.d.glifs[<<W.b.dsSources[di].layer.path,
                                      W.b.dsSources[di].layer.name, g>>].unicodes
                     ELSE @[g]]],
         reloadPattern |-> [isNone |-> FALSE,
                            glyphs |-> items.changedGlyphs,
                            glyphMap |-> found \cup deleted # {}]])))

\* processExternalChanges: the world after it and the reload pattern
processExternalChanges(W, changes) ==
  Bind(_analyzeExternalChanges(W, changes), LAMBDA analyzed :
    IF analyzed.isNone THEN [W |-> analyzed.W, reloadPattern |-> ReloadEverything]
    ELSE IF analyzed.W.raised THEN [W |-> analyzed.W, reloadPattern |-> EmptyPattern]
    ELSE updateGlyphMap(analyzed.W, analyzed.changedItems))

\* _reloadDesignSpaceFromFile
_reloadDesignSpaceFromFile(W) ==
  [W EXCEPT !.b = _initialize(W.d, [glyphDependencies |-> W.b.glyphDependencies,
                                    implicitDefaultLocationBase |->
                                      W.b.implicitDefaultLocationBase,
                                    class |-> W.b.class])]

\* _fileWatcherCallback: the world after it, the pattern and whether
\* _notifyWatcherCallbacks was called with it
_fileWatcherCallback(W, changes) ==
  Bind(processExternalChanges(W, changes), LAMBDA processed :
    IF processed.W.raised
    THEN [W |-> processed.W, reloadPattern |-> processed.reloadPattern,
          notified |-> FALSE]
    ELSE IF processed.reloadPattern.isNone
    THEN [W |-> _reloadDesignSpaceFromFile(processed.W),
          reloadPattern |-> processed.reloadPattern, notified |-> TRUE]
    ELSE [W |-> processed.W, reloadPattern |-> processed.reloadPattern,
          notified |-> processed.reloadPattern # EmptyPattern])

\* FileWatcher._watchFiles, one iteration: the batch awatch yields is
\* cleaned up, and the callback is called when something is left
_watchFiles(W, batch) ==
  Bind(_fileWatcherCallback(W, cleanupWatchFilesChanges(W.d, batch)),
       LAMBDA called : [called EXCEPT !.W.ev = @ \ batch])

(***************************************************************************)
(* The dependency graph: glyphDependencies and its build task              *)
(***************************************************************************)
\* extractGlyphDependenciesFromUFO, what the subprocess reads from the layer
extractGlyphDependenciesFromUFO(d, ufoPath, layerName) ==
  LET withComponents == {k \in DOMAIN d.glifs :
                           /\ k[1] = ufoPath /\ k[2] = layerName
                           /\ d.glifs[k].components # {}}
  IN  [isNone |-> FALSE,
       madeOf |-> [g \in {k[3] : k \in withComponents} |->
                     d.glifs[<<ufoPath, layerName, g>>].components],
       id |-> 0]

\* GlyphDependencies()
EmptyDependencies == [isNone |-> FALSE, madeOf |-> EmptyDict, id |-> 0]

\* _glyphDependenciesTask: None (state "none"), or the task: whether the
\* subprocess has read the layer, what it read, the callers that await or
\* have awaited the task; started counts the calls of asyncio.create_task, made the
\* GlyphDependencies objects that were constructed (id is the object's
\* identity)
NoTask == [state |-> "none", ufoPath |-> NoName, layerName |-> NoName,
           result |-> NoDependencies, waiting |-> {}, started |-> 0, made |-> 0]

\* The property glyphDependencies that creates a task whenever there is no
\* graph yet
glyphDependenciesRestarted(W, T, caller) ==
  IF ~W.b.glyphDependencies.isNone
  THEN [W |-> W, task |-> T, returned |-> TRUE]
  ELSE IF defaultDSSource(W.b.dsSources) = 0
  THEN [W |-> [W EXCEPT !.b.glyphDependencies =
                          [EmptyDependencies EXCEPT !.id = T.made + 1]],
        task |-> [T EXCEPT !.made = @ + 1],
        returned |-> TRUE]
  ELSE [W |-> W,
        task |-> [T EXCEPT
                    !.state = "running",
                    !.ufoPath = W.b.dsSources[defaultDSSource(W.b.dsSources)].layer.path,
                    !.layerName = W.b.dsSources[defaultDSSource(W.b.dsSources)].layer.name,
                    !.started = @ + 1,
                    !.waiting = @ \cup {caller}],
        returned |-> FALSE]

\* The property glyphDependencies, up to its await: the world and the task
\* after it, and whether it has returned
glyphDependencies(W, T, caller) ==
  IF ~W.b.glyphDependencies.isNone
  THEN [W |-> W, task |-> T, returned |-> TRUE]
  ELSE IF defaultDSSource(W.b.dsSources) = 0
  THEN [W |-> [W EXCEPT !.b.glyphDependencies =
                          [EmptyDependencies EXCEPT !.id = T.made + 1]],
        task |-> [T EXCEPT !.made = @ + 1],
        returned |-> TRUE]
  ELSE IF T.state = "none"
  THEN [W |-> W,
        task |-> [T EXCEPT
                    !.state = "running",
                    !.ufoPath = W.b.dsSources[defaultDSSource(W.b.dsSources)].layer.path,
                    !.layerName = W.b.dsSources[defaultDSSource(W.b.dsSources)].layer.name,
                    !.started = @ + 1,
                    !.waiting = {caller}],
        returned |-> FALSE]
  ELSE [W |-> W, task |-> [T EXCEPT !.waiting = @ \cup {caller}],
        returned |-> FALSE]

\* findGlyphsThatUseGlyph, of a graph that has been computed
findGlyphsThatUseGlyph(deps, glyphName) == usedBy(deps, glyphName)

(***************************************************************************)
(* The glyphs that are written                                             *)
(***************************************************************************)
GlyphSource(name, locationBase, location, layerName) ==
  [name |-> name, locationBase |-> locationBase, location |-> location,
   layerName |-> layerName, customData |-> 0]

StaticGlyph(xAdvance, components) ==
  [xAdvance |-> xAdvance, yAdvance |-> NoValue, components |-> components]

Layer(name, glyph) == [name |-> name, glyph |-> glyph]

VariableGlyph(axes, sources, layers) ==
  [axes |-> axes, sources |-> sources, layers |-> layers, customData |-> EmptyDict]

\* as getGlyph returns a glyph that is in both sources
GlyphBothSources ==
  VariableGlyph(<<>>,
                <<GlyphSource(NoName, RegularId, EmptyDict, RegularId),
                  GlyphSource(NoName, BoldId, EmptyDict, BoldId)>>,
                <<Layer(RegularId, StaticGlyph(9, {})),
                  Layer(BoldId, StaticGlyph(8, {}))>>)

\* a source with a name of its own, at the location of the default source
GlyphNamedSource ==
  VariableGlyph(<<>>,
                <<GlyphSource(<<"Foo">>, RegularId, EmptyDict, RegularId)>>,
                <<Layer(RegularId, StaticGlyph(4, {}))>>)

\* a glyph that has no layer for the default source
GlyphBoldOnly ==
  VariableGlyph(<<>>,
                <<GlyphSource(NoName, BoldId, EmptyDict, BoldId)>>,
                <<Layer(BoldId, StaticGlyph(3, {}))>>)

\* sources with a locationBase that a single-file UFO gave them
GlyphUnknownBase(identifier) ==
  VariableGlyph(<<>>,
                <<GlyphSource(NoName, identifier, EmptyDict, identifier)>>,
                <<Layer(identifier, StaticGlyph(2, {}))>>)

UnknownId1 == <<"unknown1">>

UnknownId2 == <<"unknown2">>

\* a glyph with a component
GlyphWithComponent ==
  VariableGlyph(<<>>,
                <<GlyphSource(NoName, RegularId, EmptyDict, RegularId)>>,
                <<Layer(RegularId, StaticGlyph(6, {"A"}))>>)

\* a glyph with an axis of its own and a source on it
GlyphLocalAxis ==
  VariableGlyph(<<[name |-> "loc", defaultValue |-> 0]>>,
                <<GlyphSource(NoName, RegularId, EmptyDict, RegularId),
                  GlyphSource(<<"alt">>, RegularId, [n \in {"loc"} |-> 1],
                              RegularId \o <<"^">> \o <<"alt">>)>>,
                <<Layer(RegularId, StaticGlyph(5, {})),
                  Layer(RegularId \o <<"^">> \o <<"alt">>, StaticGlyph(1, {}))>>)

\* a glyph with a source between the sources of the font
MediumId == <<"medium">>

GlyphNewSource ==
  VariableGlyph(<<>>,
                <<GlyphSource(NoName, RegularId, EmptyDict, RegularId),
                  GlyphSource(MediumId, NoName, [n \in {"wght"} |-> 1], MediumId)>>,
                <<Layer(RegularId, StaticGlyph(5, {})),
                  Layer(MediumId, StaticGlyph(6, {}))>>)

GlyphNames == {"A", "C"}

StoreGlyphs == {GlyphBothSources, GlyphNamedSource, GlyphLocalAxis, GlyphNewSource,
                GlyphUnknownBase(UnknownId1), GlyphUnknownBase(UnknownId2)}

WatchGlyphs == {GlyphBothSources, GlyphBoldOnly, GlyphNewSource}

DependencyGlyphs == {GlyphBothSources, GlyphWithComponent}

\* the code points a glyph is written with
CodePointsOf(glyphName) == IF glyphName = "A" THEN 65 ELSE 67

(***************************************************************************)
(* The state machine                                                       *)
(***************************************************************************)
VARIABLES
  w,            \* the world: backend, files, pending change events
  subscribers,  \* len(fileWatcherCallbacks)
  task,         \* _glyphDependenciesTask
  received,     \* the graph each caller of glyphDependencies got (its id)
  last,         \* the last call: operation, glyph name, glyph written
  report,       \* what the last call of _fileWatcherCallback did
  ops,          \* the number of calls so far
  edits,        \* the number of edits by other programs so far
  calc,         \* a call of a function of core/varutils.py or of a helper
                \* of the backend: the function, its arguments, its result
  watcher,      \* the FileWatcher: its fields, the events and the tasks it
                \* created, and whether aclose of the backend was called
  otf,          \* an OTFBackend: the font file, the font it has loaded, and
                \* the change events of the file that are pending
  itemList      \* an ItemList: its items and its cached indexes

vars ==
  <<w, subscribers, task, received, last, report, ops, edits, calc, watcher, otf,
    itemList>>

\* What the calls of the designspace backend leave alone
rest == <<calc, otf, itemList>>

extra == <<rest, watcher>>

\* The number of calls in a behaviour
MaxOps == 3

\* The number of edits by other programs in a behaviour
MaxEdits == 2

\* The number of subscribers of watchExternalChanges
MaxSubscribers == 1

\* The callers of glyphDependencies
Callers == {1, 2}

\* The FileWatcher as the dataclass creates it.  Events are numbered, and
\* event 0 is the default of the field _stopEvent, which the class creates
\* once; a loop is a task that runs _watchFiles.
NoWatcher ==
  [paths |-> {}, stopEvent |-> 0, task |-> 0, isSet |-> {}, delays |-> {},
   events |-> 0, loops |-> <<>>, closed |-> FALSE,
   ignorePaths |-> EmptyDict]

\* No font file
NoFont == [file |-> EmptyDict, font |-> EmptyDict, ev |-> {}]

\* No function was called
NoCalc == [fn |-> "none", args |-> <<>>, returned |-> FALSE, result |-> <<>>]

\* A call that is about to be made
Pending(fn, args) == [fn |-> fn, args |-> args, returned |-> FALSE, result |-> <<>>]

NoInput == VariableGlyph(<<>>, <<>>, <<>>)

NoReport == [batch |-> {}, own |-> FALSE, reloadPattern |-> EmptyPattern,
             notified |-> 0, raised |-> FALSE]

Called(op, name, glyph) == [op |-> op, name |-> name, glyph |-> glyph]

\* Without a file watcher nobody sees the change events
Seen(W) == IF subscribers = 0 THEN [W EXCEPT !.ev = {}] ELSE W

Init ==
  /\ w \in {OpenedOver(EmptyDisk), OpenedOver(TwoSourceDisk)}
  /\ subscribers = 0
  /\ task = NoTask
  /\ received = [c \in Callers |-> 0]
  /\ last = Called("open", "", NoInput)
  /\ report = NoReport
  /\ ops = 0
  /\ edits = 0
  /\ calc = NoCalc
  /\ watcher = NoWatcher
  /\ otf = NoFont
  /\ itemList = NewItemList

PutGlyphOf(glyphNames, glyphs) ==
  \E glyphName \in glyphNames, glyph \in glyphs :
    /\ ops < MaxOps
    /\ w' = Seen(putGlyph(Tick(w), glyphName, glyph, CodePointsOf(glyphName)))
    /\ last' = Called("putGlyph", glyphName, glyph)
    /\ ops' = ops + 1
    /\ UNCHANGED <<extra, subscribers, task, received, report, edits>>

PutGlyph == PutGlyphOf(GlyphNames, StoreGlyphs)

DeleteGlyph ==
  \E glyphName \in GlyphNames :
    /\ ops < MaxOps
    /\ w' = Seen(deleteGlyph(Tick(w), glyphName))
    /\ last' = Called("deleteGlyph", glyphName, NoInput)
    /\ ops' = ops + 1
    /\ UNCHANGED <<extra, subscribers, task, received, report, edits>>

\* getGlyph reads; what it returns is getGlyph(w, last.name)
GetGlyph ==
  \E glyphName \in GlyphNames :
    /\ ops < MaxOps
    /\ w' = [w EXCEPT !.raised = getGlyph(w, glyphName).raised]
    /\ last' = Called("getGlyph", glyphName, NoInput)
    /\ ops' = ops + 1
    /\ UNCHANGED <<extra, subscribers, task, received, report, edits>>

\* The backend is dropped and a new one is opened over the same files
Reopen ==
  /\ ops < MaxOps
  /\ w' = OpenedOver(w.d)
  /\ subscribers' = 0
  /\ task' = NoTask
  /\ received' = [c \in Callers |-> 0]
  /\ last' = Called("open", "", NoInput)
  /\ ops' = ops + 1
  /\ UNCHANGED <<extra, report, edits>>

Next == PutGlyph \/ DeleteGlyph \/ GetGlyph \/ Reopen

Spec == Init /\ [][Next]_vars

(***************************************************************************)
(* The backend with a file watcher, next to other programs that edit the   *)
(* same files                                                              *)
(***************************************************************************)
\* watchExternalChanges: the first call creates the file watcher
WatchExternalChanges ==
  /\ subscribers < MaxSubscribers
  /\ subscribers' = subscribers + 1
  /\ w' = [w EXCEPT !.raised = FALSE]
  /\ last' = Called("watchExternalChanges", "", NoInput)
  /\ UNCHANGED <<extra, task, received, report, ops, edits>>

\* What a change event is about: a glyph file of a layer, or the document
KeyOfPath(path) ==
  IF isGlif(path) THEN <<path[2], path[3], GlyphNameOfFile(path[4])>> ELSE DocPath

\* Another program writes a glyph file into a layer directory
ExternalWriteOf(glyphNames) ==
  \E i \in DOMAIN w.d.layers, glyphName \in glyphNames :
    /\ edits < MaxEdits
    /\ w' = Seen(Bind(<<w.d.layers[i][1], w.d.layers[i][2], glyphName>>, LAMBDA key :
              [w EXCEPT
                 !.d.clock = @ + 1,
                 !.d.glifs = SetItem(@, key, GlifFile(w.d.clock + 1, 1, {})),
                 !.touched = @ \cup {key},
                 !.ev = @ \cup {<<IF key \in DOMAIN w.d.glifs
                                  THEN ChangeModified ELSE ChangeAdded,
                                  GlifPath(key[1], key[2], key[3])>>}]))
    /\ edits' = edits + 1
    /\ UNCHANGED <<extra, subscribers, task, received, last, report, ops>>

ExternalWrite == ExternalWriteOf(GlyphNames)

\* Another program removes a glyph file
ExternalDelete ==
  \E key \in DOMAIN w.d.glifs :
    /\ edits < MaxEdits
    /\ key[3] \in GlyphNames
    /\ w' = Seen([w EXCEPT
                    !.d.clock = @ + 1,
                    !.d.glifs = DelItem(@, key),
                    !.touched = @ \cup {key},
                    !.ev = @ \cup {<<ChangeDeleted,
                                     GlifPath(key[1], key[2], key[3])>>}])
    /\ edits' = edits + 1
    /\ UNCHANGED <<extra, subscribers, task, received, last, report, ops>>

\* Another program saves the designspace document, with the same sources
ExternalWriteDocument ==
  /\ edits < MaxEdits
  /\ w' = Seen([w EXCEPT
                  !.d.clock = @ + 1,
                  !.d.doc.mtime = w.d.clock + 1,
                  !.touched = @ \cup {DocPath},
                  !.ev = @ \cup {<<ChangeModified, DocPath>>}])
  /\ edits' = edits + 1
  /\ UNCHANGED <<extra, subscribers, task, received, last, report, ops>>

\* The batches awatch can yield: all pending events, or those of one path
Batches(ev) == {ev} \cup {{e \in ev : e[2] = f[2]} : f \in ev}

\* FileWatcher._watchFiles, one iteration, and in it _fileWatcherCallback
WatchFiles ==
  \E batch \in Batches(w.ev) :
    /\ ops < MaxOps
    /\ subscribers > 0
    /\ batch # {}
    /\ \E called \in {_watchFiles(Tick(w), batch)} :
         /\ w' = called.W
         /\ report' = [batch |-> batch,
                       own |-> \A e \in batch : KeyOfPath(e[2]) \notin w.touched,
                       reloadPattern |-> called.reloadPattern,
                       notified |-> IF called.notified THEN subscribers ELSE 0,
                       raised |-> called.W.raised]
    /\ last' = Called("_watchFiles", "", NoInput)
    /\ ops' = ops + 1
    /\ UNCHANGED <<extra, subscribers, task, received, edits>>

PutGlyphWatched == PutGlyphOf({"A"}, WatchGlyphs)

NextWatch ==
  \/ WatchExternalChanges
  \/ PutGlyphWatched
  \/ DeleteGlyph
  \/ ExternalWrite
  \/ ExternalDelete
  \/ ExternalWriteDocument
  \/ WatchFiles

\* A backend opened over two sources
InitWatch == Init /\ w = OpenedOver(TwoSourceDisk)

SpecWatch == InitWatch /\ [][NextWatch]_vars

(***************************************************************************)
(* The backend and the callers of glyphDependencies                        *)
(***************************************************************************)
\* A caller gets the property glyphDependencies
RequestDependenciesOf(callers) ==
  \E c \in callers :
    /\ received[c] = 0
    /\ c \notin task.waiting
    /\ \E got \in {glyphDependencies(w, task, c)} :
         /\ w' = [got.W EXCEPT !.raised = FALSE]
         /\ task' = got.task
         /\ received' = IF got.returned
                        THEN [received EXCEPT ![c] = got.W.b.glyphDependencies.id]
                        ELSE received
    /\ last' = Called("glyphDependencies", "", NoInput)
    /\ UNCHANGED <<extra, subscribers, report, ops, edits>>

RequestDependencies == RequestDependenciesOf(Callers)

\* The subprocess of extractGlyphDependenciesFromUFO reads the layer
ScanUFO ==
  /\ task.state = "running"
  /\ task' = [task EXCEPT
                !.state = "scanned",
                !.result = [extractGlyphDependenciesFromUFO(w.d, task.ufoPath,
                                                            task.layerName)
                              EXCEPT !.id = task.made + 1],
                !.made = @ + 1]
  /\ last' = Called("extractGlyphDependenciesFromUFO", "", NoInput)
  /\ UNCHANGED <<extra, w, subscribers, received, report, ops, edits>>

\* The task is done: setResult is called, and the callers that await the
\* task get its result
BuildDone ==
  /\ task.state = "scanned"
  /\ task' = [task EXCEPT !.state = "done"]
  /\ w' = [w EXCEPT !.b.glyphDependencies = task.result]
  /\ received' = [c \in Callers |->
                    IF c \in task.waiting THEN task.result.id ELSE received[c]]
  /\ last' = Called("setResult", "", NoInput)
  /\ UNCHANGED <<extra, subscribers, report, ops, edits>>

PutGlyphWithComponents == PutGlyphOf(GlyphNames, DependencyGlyphs)

NextDeps ==
  \/ RequestDependencies
  \/ ScanUFO
  \/ BuildDone
  \/ PutGlyphWithComponents
  \/ DeleteGlyph

SpecDeps == Init /\ [][NextDeps]_vars

(***************************************************************************)
(* The backend and a client that edits the axes and the sources            *)
(***************************************************************************)
FontSource(name, location, sparse) ==
  [name |-> name, location |-> location, isSparse |-> sparse]

AtWeight(value) == [n \in {"wght"} |-> value]

RegularSource == FontSource(<<"Regular">>, AtWeight(0), FALSE)

BoldSource == FontSource(<<"Bold">>, AtWeight(2), FALSE)

MediumSource == FontSource(<<"Medium">>, AtWeight(1), TRUE)

LightSource == FontSource(<<"Light">>, AtWeight(1), FALSE)

LightId == <<"light">>

UprightId == <<"upright">>

\* The dicts of sources the client puts: the sources of the document, the
\* non-default source alone, no source, a source flagged sparse that is not,
\* the same after a new source, a new sparse source, the sources at each
\* other's location, a sparse source alone, and new identifiers at the
\* default location
SourcesCatalog ==
  {<<<<RegularId, RegularSource>>, <<BoldId, BoldSource>>>>,
   <<<<BoldId, BoldSource>>>>,
   <<>>,
   <<<<RegularId, [RegularSource EXCEPT !.isSparse = TRUE]>>, <<BoldId, BoldSource>>>>,
   <<<<LightId, LightSource>>, <<RegularId, [RegularSource EXCEPT !.isSparse = TRUE]>>>>,
   <<<<RegularId, RegularSource>>, <<BoldId, BoldSource>>, <<MediumId, MediumSource>>>>,
   <<<<RegularId, [RegularSource EXCEPT !.location = AtWeight(2)]>>,
     <<BoldId, [BoldSource EXCEPT !.location = AtWeight(0)]>>>>,
   <<<<MediumId, MediumSource>>>>,
   <<<<UprightId, RegularSource>>>>,
   <<<<UprightId, RegularSource>>, <<LightId, [LightSource EXCEPT !.location = AtWeight(0)]>>>>}

PutSources ==
  \E sources \in SourcesCatalog :
    /\ ops < MaxOps
    /\ w' = Seen(putSources(Tick(w), sources))
    /\ last' = Called("putSources", "", sources)
    /\ ops' = ops + 1
    /\ UNCHANGED <<extra, subscribers, task, received, report, edits>>

PutAxes ==
  /\ ops < MaxOps
  /\ w' = Seen(putAxes(Tick(w)))
  /\ last' = Called("putAxes", "", NoInput)
  /\ ops' = ops + 1
  /\ UNCHANGED <<extra, subscribers, task, received, report, edits>>

PutGlyphAmongSources == PutGlyphOf({"A"}, {GlyphBothSources, GlyphNewSource})

Kerning(groupsSide1, groupsSide2, sourceIdentifiers, values) ==
  [groupsSide1 |-> groupsSide1, groupsSide2 |-> groupsSide2,
   sourceIdentifiers |-> sourceIdentifiers, values |-> values]

\* A kerning table for the given sources: the group @O on either side, and
\* a value for the pairs (@O, B) and (A, @O) in the first source, for the
\* pair (A, @O) in the last one
KerningFor(sourceIdentifiers, member, value) ==
  Kerning([g \in {<<"O">>} |-> <<member>>],
          [g \in {<<"O">>} |-> <<member, "B">>],
          sourceIdentifiers,
          [pair \in {<<<<"@", "O">>, <<"B">>>>, <<<<"A">>, <<"@", "O">>>>} |->
             [i \in DOMAIN sourceIdentifiers |->
                IF i = 1 \/ (i = Len(sourceIdentifiers) /\ pair[1] = <<"A">>)
                THEN value + i ELSE NoValue]])

UnknownSourceId == <<"nowhere">>

\* The kerning the client puts: tables for the two sources of the document,
\* and tables that list an unknown source or the source "medium"
KerningCatalog ==
  {<<<<"kern", KerningFor(<<RegularId, BoldId>>, "A", 10)>>>>,
   <<<<"kern", KerningFor(<<RegularId>>, "C", 20)>>>>,
   <<<<"kern", KerningFor(<<RegularId, UnknownSourceId>>, "B", 30)>>>>,
   <<<<"kern", KerningFor(<<MediumId, RegularId>>, "B", 40)>>>>,
   <<<<"vkrn", KerningFor(<<RegularId, BoldId>>, "B", 50)>>>>,
   <<<<"kern", KerningFor(<<RegularId, BoldId>>, "C", 60)>>,
     <<"vkrn", KerningFor(<<RegularId, MediumId>>, "B", 70)>>>>}

PutKerning ==
  \E kerning \in KerningCatalog :
    /\ ops < MaxOps
    /\ w' = Seen(putKerning(Tick(w), kerning))
    /\ last' = Called("putKerning", "", kerning)
    /\ ops' = ops + 1
    /\ UNCHANGED <<extra, subscribers, task, received, report, edits>>

NextSources ==
  \/ PutSources
  \/ PutAxes
  \/ PutGlyphAmongSources
  \/ PutKerning

SpecSources == Init /\ [][NextSources]_vars

(***************************************************************************)
(* The backend of a single UFO.  UFOBackend is a DesignspaceBackend over a *)
(* document that exists in memory only: one source, no axis.  The model's   *)
(* axis at its default stands for no axis, so the locations a client sends *)
(* here are empty.                                                         *)
(***************************************************************************)
FontPath == <<"Font.ufo">>

DefaultId == <<"default">>

\* The document UFOBackend.fromPath builds, next to a UFO with the glyph "A"
SingleUFODisk ==
  [layers |-> << <<FontPath, DefaultLayerName>> >>,
   glifs |-> [k \in {<<FontPath, DefaultLayerName, "A">>} |-> GlifFile(0, 5, {})],
   glyphOrder |-> [p \in {FontPath} |-> [has |-> TRUE, order |-> <<"A">>]],
   doc |-> [mtime |-> NoTime,
            sources |-> <<[name |-> DefaultId, styleName |-> DefaultId,
                           path |-> FontPath, layerName |-> NoName,
                           location |-> EmptyDict]>>],
   clock |-> 0,
   groups |-> EmptyDict, kerning |-> EmptyDict]

\* UFOBackend.fromPath
OpenedAsUFO(d) ==
  [b |-> _initialize(d, [glyphDependencies |-> NoDependencies,
                         implicitDefaultLocationBase |-> NoName,
                         class |-> "UFOBackend"]),
   d |-> d, ev |-> {}, touched |-> {}, raised |-> FALSE]

\* UFOBackend.putAxes: axes is [axes, mappings]
ufoPutAxes(W, axes) ==
  IF axes.axes # <<>> \/ axes.mappings # <<>> THEN [W EXCEPT !.raised = TRUE]
  ELSE W

\* UFOBackend.putSources: more than one source is logged as a warning
ufoPutSources(W, sources) ==
  IF Len(sources) > 1 THEN W
  ELSE putSources(W, sources)

Axes(axes, mappings) == [axes |-> axes, mappings |-> mappings]

\* A mapping between two locations of the weight axis
WeightMapping == [inputLocation |-> AtWeight(1), outputLocation |-> AtWeight(2)]

\* The axes a client puts: none, an axis, a mapping, both
AxesCatalog ==
  {Axes(<<>>, <<>>), Axes(FontAxes, <<>>), Axes(<<>>, <<WeightMapping>>),
   Axes(FontAxes, <<WeightMapping>>)}

DefaultSource == FontSource(DefaultId, EmptyDict, FALSE)

UprightSource == FontSource(<<"Upright">>, EmptyDict, FALSE)

\* The dicts of sources a client puts: the source of the document, the same
\* under another name, no source, a source with a new identifier, and two
\* and three sources
UFOSourcesCatalog ==
  {<<<<DefaultId, DefaultSource>>>>,
   <<<<DefaultId, UprightSource>>>>,
   <<>>,
   <<<<UprightId, UprightSource>>>>,
   <<<<DefaultId, DefaultSource>>, <<UprightId, UprightSource>>>>,
   <<<<DefaultId, DefaultSource>>, <<UprightId, UprightSource>>,
     <<LightId, FontSource(<<"Light">>, EmptyDict, TRUE)>>>>}

\* a glyph of the single UFO, with its one source
UFOGlyph(name, xAdvance) ==
  VariableGlyph(<<>>,
                <<GlyphSource(name, DefaultId, EmptyDict, DefaultId)>>,
                <<Layer(DefaultId, StaticGlyph(xAdvance, {}))>>)

UFOGlyphs == {UFOGlyph(NoName, 4), UFOGlyph(NoName, 5), UFOGlyph(<<"Foo">>, 6)}

InitUFO ==
  /\ w = OpenedAsUFO(SingleUFODisk)
  /\ subscribers = 0
  /\ task = NoTask
  /\ received = [c \in Callers |-> 0]
  /\ last = Called("open", "", NoInput)
  /\ report = NoReport
  /\ ops = 0
  /\ edits = 0
  /\ calc = NoCalc
  /\ watcher = NoWatcher
  /\ otf = NoFont
  /\ itemList = NewItemList

UFOPutAxes ==
  \E axes \in AxesCatalog :
    /\ ops < MaxOps
    /\ w' = Seen(ufoPutAxes(Tick(w), axes))
    /\ last' = Called("putAxes", "", axes)
    /\ ops' = ops + 1
    /\ UNCHANGED <<extra, subscribers, task, received, report, edits>>

UFOPutSources ==
  \E sources \in UFOSourcesCatalog :
    /\ ops < MaxOps
    /\ w' = Seen(ufoPutSources(Tick(w), sources))
    /\ last' = Called("putSources", "", sources)
    /\ ops' = ops + 1
    /\ UNCHANGED <<extra, subscribers, task, received, report, edits>>

UFOPutGlyph == PutGlyphOf(GlyphNames, UFOGlyphs)

NextUFO ==
  \/ UFOPutAxes
  \/ UFOPutSources
  \/ UFOPutGlyph
  \/ DeleteGlyph
  \/ GetGlyph

SpecUFO == InitUFO /\ [][NextUFO]_vars

(***************************************************************************)
(* The FileWatcher and its tasks.  F is the watcher:                       *)
(*   paths      self.paths                                                 *)
(*   stopEvent  self._stopEvent, the number of an event                    *)
(*   task       self._task, the number of a loop, 0 for None               *)
(*   isSet      the events that are set                                    *)
(*   delays     the events a task of setEventAfterDelay is about to set    *)
(*   events     the number of events _watchFiles has created               *)
(*   loops      the tasks of _watchFiles in the order of their creation:   *)
(*              [state, stopEvent, paths], the state being "created" (not  *)
(*              run yet), "watching" (in awatch), "callback" (awaiting the *)
(*              callbacks of the subscribers), "finished" or "cancelled"   *)
(***************************************************************************)
NewLoop == [state |-> "created", stopEvent |-> 0, paths |-> {}]

\* FileWatcher._startWatching
_startWatching(F) ==
  [F EXCEPT
     !.delays = @ \cup {F.stopEvent},
     !.loops = IF F.paths # {} THEN Append(@, NewLoop) ELSE @,
     !.task = IF F.paths # {} THEN Len(F.loops) + 1 ELSE 0]

\* FileWatcher.setPaths
setPaths(F, paths) ==
  IF F.paths # paths THEN _startWatching([F EXCEPT !.paths = paths])
  ELSE F

\* FileWatcher.addPaths
addPaths(F, paths) == _startWatching([F EXCEPT !.paths = @ \cup paths])

\* FileWatcher.removePaths
removePaths(F, paths) == _startWatching([F EXCEPT !.paths = @ \ paths])

\* os.stat(path).st_mtime if os.path.exists(path) else None
pathModTime(d, path) ==
  IF isGlif(path) THEN fileModTime(d, path[2], path[3], GlyphNameOfFile(path[4]))
  ELSE d.doc.mtime

\* FileWatcher.ignoreNextChange
ignoreNextChange(F, d, path) ==
  [F EXCEPT !.ignorePaths =
              (path :> (Get(@, path, {}) \cup {pathModTime(d, path)})) @@ @]

\* A watcher that passes every event on
passAllChanges(F, d, changes) == [F |-> F, changes |-> changes]

\* FileWatcher._filterIgnores, the loop over the changes from event i on
RECURSIVE filterIgnoresFrom(_, _, _, _, _)
filterIgnoresFrom(ignorePaths, d, events, i, filteredChanges) ==
  IF i > Len(events)
  THEN [ignorePaths |-> ignorePaths, filteredChanges |-> filteredChanges]
  ELSE IF /\ events[i][2] \in DOMAIN ignorePaths
          /\ pathModTime(d, events[i][2]) \in ignorePaths[events[i][2]]
  THEN filterIgnoresFrom(
         IF ignorePaths[events[i][2]] = {pathModTime(d, events[i][2])}
         THEN DelItem(ignorePaths, events[i][2])
         ELSE [ignorePaths EXCEPT ![events[i][2]] = @ \ {pathModTime(d, events[i][2])}],
         d, events, i + 1, filteredChanges)
  ELSE filterIgnoresFrom(ignorePaths, d, events, i + 1,
                         filteredChanges \cup {events[i]})

\* FileWatcher._filterIgnores: the watcher after it and the changes it returns
_filterIgnores(F, d, changes) ==
  Bind(filterIgnoresFrom(F.ignorePaths, d, sortedChanges(changes), 1, {}), LAMBDA r :
    [F |-> [F EXCEPT !.ignorePaths = r.ignorePaths], changes |-> r.filteredChanges])

\* Task.cancel: a task that is done stays as it is
cancel(loop) ==
  IF loop.state \in {"finished", "cancelled"} THEN loop
  ELSE [loop EXCEPT !.state = "cancelled"]

\* FileWatcher.aclose
fileWatcherAclose(F) ==
  IF F.task = 0 THEN F
  ELSE [F EXCEPT !.isSet = @ \cup {F.stopEvent},
                 !.loops[F.task] = cancel(@)]

\* FileWatcher._watchFiles up to awatch: the task makes an event of its own
\* the stop event of the watcher, and watches the paths of that moment
watchFilesStarts(F, i) ==
  [F EXCEPT
     !.events = @ + 1,
     !.stopEvent = F.events + 1,
     !.loops[i] = [state |-> "watching", stopEvent |-> F.events + 1,
                   paths |-> F.paths]]

\* _updatePathsToWatch: the paths of the layers and of the document
pathsToWatch(b) ==
  {b.ufoLayers[i].path : i \in DOMAIN b.ufoLayers} \cup {DocPath}

\* _updatePathsToWatch as _createUFO calls it, once for each UFO in created
RECURSIVE _updatePathsToWatchFrom(_, _, _)
_updatePathsToWatchFrom(F, paths, created) ==
  IF created = <<>> THEN F
  ELSE _updatePathsToWatchFrom(setPaths(F, paths \cup {created[1]}),
                               paths \cup {created[1]}, Tail(created))

\* The UFOs a call created, in the order of their creation
RECURSIVE createdUFOs(_, _)
createdUFOs(before, layers) ==
  IF layers = <<>> THEN <<>>
  ELSE IF layers[1][1] \in before
  THEN createdUFOs(before, Tail(layers))
  ELSE <<layers[1][1]>> \o createdUFOs(before \cup {layers[1][1]}, Tail(layers))

\* The watcher after a call that took the world from W to W1: without a
\* file watcher _updatePathsToWatch returns at once
watcherAfter(F, installed, W, W1) ==
  IF ~installed THEN F
  ELSE _updatePathsToWatchFrom(F, pathsToWatch(W.b),
                               createdUFOs(ufoPathsOnDisk(W.d), W1.d.layers))

\* Whether a loop gets a change event: it watches the directory or the file
watches(loop, event) ==
  IF isGlif(event[2]) THEN event[2][2] \in loop.paths ELSE event[2] \in loop.paths

\* The loops that have not ended
running(F) ==
  {i \in DOMAIN F.loops : F.loops[i].state \in {"created", "watching", "callback"}}

(***************************************************************************)
(* The backend, its file watcher and its tasks, until after aclose         *)
(***************************************************************************)
\* The number of calls of putSources and putGlyph before aclose
MaxCloseOps == 1

\* The number of edits by other programs next to a backend that is closed
MaxCloseEdits == 1

\* A call of the client reaches the backend through the event loop, which
\* has run the tasks that were created before: no loop is waiting to start
CanCall ==
  /\ ~watcher.closed
  /\ \A i \in DOMAIN watcher.loops : watcher.loops[i].state # "created"

\* watchExternalChanges: the first call creates the file watcher and sets
\* its paths
WatchExternalChangesOpen ==
  /\ CanCall
  /\ subscribers < MaxSubscribers
  /\ subscribers' = subscribers + 1
  /\ watcher' = IF subscribers = 0 THEN setPaths(watcher, pathsToWatch(w.b))
                ELSE watcher
  /\ w' = [w EXCEPT !.raised = FALSE]
  /\ last' = Called("watchExternalChanges", "", NoInput)
  /\ UNCHANGED <<rest, task, received, report, ops, edits>>

\* The sources the client puts: one source and two sources, which get a UFO
\* each when the document has no source at their locations
CloseSourcesCatalog ==
  {<<<<RegularId, RegularSource>>>>,
   <<<<RegularId, RegularSource>>, <<BoldId, BoldSource>>>>}

PutSourcesOpen ==
  \E sources \in CloseSourcesCatalog :
    /\ CanCall
    /\ ops < MaxCloseOps
    /\ \E W1 \in {putSources(Tick(w), sources)} :
         /\ w' = Seen(W1)
         /\ watcher' = watcherAfter(watcher, subscribers > 0, w, W1)
    /\ last' = Called("putSources", "", NoInput)
    /\ ops' = ops + 1
    /\ UNCHANGED <<rest, subscribers, task, received, report, edits>>

PutGlyphOpen ==
  \E glyph \in {GlyphBothSources, GlyphWithComponent} :
    /\ CanCall
    /\ ops < MaxCloseOps
    /\ \E W1 \in {putGlyph(Tick(w), "A", glyph, CodePointsOf("A"))} :
         /\ w' = Seen(W1)
         /\ watcher' = watcherAfter(watcher, subscribers > 0, w, W1)
    /\ last' = Called("putGlyph", "A", glyph)
    /\ ops' = ops + 1
    /\ UNCHANGED <<rest, subscribers, task, received, report, edits>>

RequestDependenciesOpen == CanCall /\ RequestDependenciesOf({1})

\* Another program writes the glyph "A" into a layer directory
ExternalWriteOnce == edits < MaxCloseEdits /\ ExternalWriteOf({"A"})

\* The event loop runs the task of _watchFiles that was created first
WatchFilesStarts ==
  \E i \in DOMAIN watcher.loops :
    /\ watcher.loops[i].state = "created"
    /\ \A j \in 1..(i - 1) : watcher.loops[j].state # "created"
    /\ watcher' = watchFilesStarts(watcher, i)
    /\ UNCHANGED <<rest, w, subscribers, task, received, last, report, ops, edits>>

\* setEventAfterDelay: the delay is over
SetEventAfterDelay ==
  \E event \in watcher.delays :
    /\ watcher' = [watcher EXCEPT !.delays = @ \ {event},
                                  !.isSet = @ \cup {event}]
    /\ UNCHANGED <<rest, w, subscribers, task, received, last, report, ops, edits>>

\* awatch ends when its stop event is set, and _watchFiles with it
WatchFilesStops ==
  \E i \in DOMAIN watcher.loops :
    /\ watcher.loops[i].state = "watching"
    /\ watcher.loops[i].stopEvent \in watcher.isSet
    /\ watcher' = [watcher EXCEPT !.loops[i].state = "finished"]
    /\ UNCHANGED <<rest, w, subscribers, task, received, last, report, ops, edits>>

\* One iteration of a loop: awatch yields a batch, and _fileWatcherCallback
\* runs up to the callbacks of the subscribers
WatchFilesDelivers ==
  \E i \in DOMAIN watcher.loops :
    \E batch \in Batches({e \in w.ev : watches(watcher.loops[i], e)}) :
      /\ watcher.loops[i].state = "watching"
      /\ watcher.loops[i].stopEvent \notin watcher.isSet
      /\ batch # {}
      /\ \E called \in {_watchFiles(Tick(w), batch)} :
           /\ w' = called.W
           /\ report' = [batch |-> batch,
                         own |-> \A e \in batch : KeyOfPath(e[2]) \notin w.touched,
                         reloadPattern |-> called.reloadPattern,
                         notified |-> IF called.notified THEN subscribers ELSE 0,
                         raised |-> called.W.raised]
           /\ watcher' =
                Bind(IF called.reloadPattern.isNone /\ ~called.W.raised
                     THEN setPaths(watcher, pathsToWatch(called.W.b))
                     ELSE watcher,
                     LAMBDA F :
                       IF called.notified
                       THEN [F EXCEPT !.loops[i].state = "callback"]
                       ELSE F)
      /\ last' = Called("_watchFiles", "", NoInput)
      /\ UNCHANGED <<rest, subscribers, task, received, ops, edits>>

\* The callbacks of the subscribers return, and the loop awaits awatch again
CallbackReturns ==
  \E i \in DOMAIN watcher.loops :
    /\ watcher.loops[i].state = "callback"
    /\ watcher' = [watcher EXCEPT !.loops[i].state = "watching"]
    /\ UNCHANGED <<rest, w, subscribers, task, received, last, report, ops, edits>>

\* DesignspaceBackend.aclose
Aclose ==
  /\ CanCall
  /\ watcher' = [(IF subscribers > 0 THEN fileWatcherAclose(watcher) ELSE watcher)
                   EXCEPT !.closed = TRUE]
  /\ task' = IF task.state \in {"running", "scanned"}
             THEN [task EXCEPT !.state = "cancelled"]
             ELSE task
  /\ w' = [w EXCEPT !.raised = FALSE]
  /\ last' = Called("aclose", "", NoInput)
  /\ UNCHANGED <<rest, subscribers, received, report, ops, edits>>

NextClose ==
  \/ WatchExternalChangesOpen
  \/ PutSourcesOpen
  \/ PutGlyphOpen
  \/ RequestDependenciesOpen
  \/ ScanUFO
  \/ BuildDone
  \/ ExternalWriteOnce
  \/ WatchFilesStarts
  \/ SetEventAfterDelay
  \/ WatchFilesStops
  \/ WatchFilesDelivers
  \/ CallbackReturns
  \/ Aclose

\* The event loop runs the tasks that can run, the delay of 0.1 s ends, and
\* the callbacks of the subscribers return
SpecClose ==
  /\ Init
  /\ [][NextClose]_vars
  /\ WF_vars(WatchFilesStarts)
  /\ WF_vars(SetEventAfterDelay)
  /\ WF_vars(WatchFilesStops)
  /\ WF_vars(CallbackReturns)
  /\ WF_vars(ScanUFO)
  /\ WF_vars(BuildDone)

(***************************************************************************)
(* The backend of a binary font (backends/opentype.py), a WatchableBackend. *)
(* A font file is a dict from the names of its glyphs to their advances;    *)
(* O is [file, font, ev]: the file, the TTFont that was loaded from it, and *)
(* the pending change events of the file.                                   *)
(***************************************************************************)
FontFilePath == <<"testfont.ttf">>

\* OTFBackend._initializeFromPath: the font is loaded from the file
_initializeFromPath(O) == [O EXCEPT !.font = O.file]

\* OTFBackend.fileWatcherProcessChanges: the backend after it and the reload
\* pattern it returns
fileWatcherProcessChanges(O, changes) ==
  [O |-> _initializeFromPath(O), reloadPattern |-> ReloadEverything, raised |-> FALSE]

\* WatchableBackend.processExternalChanges, which OTFBackend inherits: it
\* raises NotImplementedError
watchableProcessExternalChanges(O, changes) ==
  [O |-> O, reloadPattern |-> EmptyPattern, raised |-> TRUE]

\* WatchableBackend._fileWatcherCallback: the backend after it, the pattern,
\* whether fileWatcherNotifyCallbacks was called, and whether it raised
watchableFileWatcherCallback(O, changes) ==
  Bind(watchableProcessExternalChanges(O, changes), LAMBDA processed :
    [O |-> processed.O,
     reloadPattern |-> processed.reloadPattern,
     notified |-> /\ ~processed.raised
                  /\ (processed.reloadPattern.isNone
                      \/ processed.reloadPattern # EmptyPattern),
     raised |-> processed.raised])

\* OTFBackend.getGlyph: [absent, xAdvance], the advance of the default layer
otfGetGlyph(O, glyphName) ==
  IF glyphName \notin DOMAIN O.font THEN [absent |-> TRUE, xAdvance |-> NoValue]
  ELSE [absent |-> FALSE, xAdvance |-> O.font[glyphName]]

\* OTFBackend.fromPath
otfFromPath(file) == _initializeFromPath([file |-> file, font |-> EmptyDict, ev |-> {}])

\* The font of the test: the glyph "A" with the advance 3
TestFont == [g \in {"A"} |-> 3]

\* The advances another program gives a glyph
Advances == {3, 9}

InitOTF ==
  /\ w = OpenedOver(EmptyDisk)
  /\ subscribers = 0
  /\ task = NoTask
  /\ received = [c \in Callers |-> 0]
  /\ last = Called("open", "", NoInput)
  /\ report = NoReport
  /\ ops = 0
  /\ edits = 0
  /\ calc = NoCalc
  /\ watcher = NoWatcher
  /\ otf = otfFromPath(TestFont)
  /\ itemList = NewItemList

\* WatchableBackend.watchExternalChanges: the first call creates the file
\* watcher, and fileWatcherWasInstalled sets its path
OTFWatchExternalChanges ==
  /\ subscribers < MaxSubscribers
  /\ subscribers' = subscribers + 1
  /\ watcher' = IF subscribers = 0 THEN setPaths(watcher, {FontFilePath}) ELSE watcher
  /\ last' = Called("watchExternalChanges", "", NoInput)
  /\ UNCHANGED <<w, calc, otf, itemList, task, received, report, ops, edits>>

\* Another program saves the font file, in place or over a new file
OTFExternalSave ==
  \E glyphName \in GlyphNames, xAdvance \in Advances,
     change \in {ChangeAdded, ChangeModified} :
    /\ edits < MaxEdits
    /\ otf' = [otf EXCEPT
                 !.file = SetItem(@, glyphName, xAdvance),
                 !.ev = IF subscribers = 0 THEN @
                        ELSE @ \cup {<<change, FontFilePath>>}]
    /\ edits' = edits + 1
    /\ UNCHANGED <<w, calc, watcher, itemList, subscribers, task, received, last,
                   report, ops>>

\* FileWatcher._watchFiles, one iteration: awatch yields a batch, and an
\* exception of the callback is logged
OTFWatchFiles ==
  \E batch \in (SUBSET otf.ev) \ {{}} :
    /\ ops < MaxOps
    /\ subscribers > 0
    /\ \E loop \in running(watcher) : watcher.loops[loop].state = "watching"
    /\ \E called \in {watchableFileWatcherCallback(otf, batch)} :
         /\ otf' = [called.O EXCEPT !.ev = @ \ batch]
         /\ report' = [batch |-> batch,
                       own |-> FALSE,
                       reloadPattern |-> called.reloadPattern,
                       notified |-> IF called.notified THEN subscribers ELSE 0,
                       raised |-> called.raised]
    /\ last' = Called("_watchFiles", "", NoInput)
    /\ ops' = ops + 1
    /\ UNCHANGED <<w, calc, watcher, itemList, subscribers, task, received, edits>>

\* getGlyph reads; what it returns is otfGetGlyph(otf, last.name)
OTFGetGlyph ==
  \E glyphName \in GlyphNames :
    /\ ops < MaxOps
    /\ last' = Called("getGlyph", glyphName, NoInput)
    /\ ops' = ops + 1
    /\ UNCHANGED <<w, calc, watcher, otf, itemList, subscribers, task, received,
                   report, edits>>

NextOTF ==
  \/ OTFWatchExternalChanges
  \/ WatchFilesStarts
  \/ SetEventAfterDelay
  \/ OTFExternalSave
  \/ OTFWatchFiles
  \/ OTFGetGlyph

SpecOTF == InitOTF /\ [][NextOTF]_vars

(***************************************************************************)
(* The functions of core/varutils.py and the helpers of the backend, called *)
(* on their own                                                            *)
(***************************************************************************)
\* The number of axes of a location, and the values on an axis
MaxAxes == 3

AxisValues == {0, 1}

\* The dicts with keys of names and values of values, in every order of
\* insertion: sequences of <<key, value>> with distinct keys
OrderedDicts(names, values, maxLen) ==
  {od \in UNION {[1..k -> names \X values] : k \in 0..maxLen} :
     \A i, j \in DOMAIN od : od[i][1] = od[j][1] => i = j}

LocationDicts == OrderedDicts(Range(SortedAxisNames), AxisValues, MaxAxes)

\* The calls the behaviours start from
LocationToTupleCalls ==
  {Pending("locationToTuple", <<a, b>>) : a \in LocationDicts, b \in LocationDicts}

\* The dicts whose order of insertion is not observed
Locations ==
  UNION {[names -> AxisValues] : names \in SUBSET Range(SortedAxisNames)}

MakeSparseLocationCalls ==
  {Pending("makeSparseLocation", <<loc, dflt>>) : loc \in Locations, dflt \in Locations}

\* The length of the member list of a kerning group
MaxGroupLen == 3

GroupMembers == {"A", "B", "C"}

MemberLists == UNION {[1..k -> GroupMembers] : k \in 0..MaxGroupLen}

\* The groups of a source: "public.kern1.O" with any member list or without
\* it, "public.kern2.O" with a short member list or without it
KernGroups ==
  {Merge(g1, g2) :
     g1 \in {EmptyDict} \cup {[n \in {"public.kern1.O"} |-> l] : l \in MemberLists},
     g2 \in {EmptyDict} \cup {[n \in {"public.kern2.O"} |-> l] :
                               l \in {<<"A">>, <<"B", "A">>}}}

MergeKernGroupsCalls ==
  {Pending("mergeKernGroups", <<groupsA, groupsB>>) :
     groupsA \in KernGroups, groupsB \in KernGroups}

\* The largest value of an axis in user space, a whole number
MaxAxisValue == 2

\* The whole number n
Whole(n) == n * Scale

FontAxis(name, minValue, defaultValue, maxValue) ==
  [name |-> name, minValue |-> minValue, defaultValue |-> defaultValue,
   maxValue |-> maxValue]

\* The axis "wght" with every minimum <= default <= maximum
WeightAxes ==
  {FontAxis("wght", Whole(lo), Whole(d), Whole(hi)) :
     lo \in 0..MaxAxisValue, d \in 0..MaxAxisValue, hi \in 0..MaxAxisValue}
  \cap {axis \in [name : {"wght"}, minValue : Int, defaultValue : Int, maxValue : Int] :
          axis.minValue <= axis.defaultValue /\ axis.defaultValue <= axis.maxValue}

WidthAxis == FontAxis("wdth", Whole(0), Whole(1), Whole(MaxAxisValue))

\* Normalized values from -2 to 2, in steps of 1/Scale
NormalizedValues == (0 - Whole(2))..Whole(2)

NormalizedLocations ==
  {Merge(a, b) :
     a \in {EmptyDict} \cup {[n \in {"wght"} |-> v] : v \in NormalizedValues},
     b \in {EmptyDict} \cup {[n \in names |-> 1] : names \in {{"wdth"}, {"loc"}}}}

UnnormalizeLocationCalls ==
  {Pending("unnormalizeLocation", <<location, axisList>>) :
     location \in NormalizedLocations,
     axisList \in {<<axis>> : axis \in WeightAxes}
                    \cup {<<axis, WidthAxis>> : axis \in WeightAxes}}

FunctionCalls ==
  LocationToTupleCalls \cup MakeSparseLocationCalls \cup MergeKernGroupsCalls
    \cup UnnormalizeLocationCalls

InitFunctions ==
  /\ w = OpenedOver(EmptyDisk)
  /\ subscribers = 0
  /\ task = NoTask
  /\ received = [c \in Callers |-> 0]
  /\ last = Called("open", "", NoInput)
  /\ report = NoReport
  /\ ops = 0
  /\ edits = 0
  /\ calc \in FunctionCalls
  /\ watcher = NoWatcher
  /\ otf = NoFont
  /\ itemList = NewItemList

\* The call returns
Returns(result) ==
  /\ ~calc.returned
  /\ calc' = [calc EXCEPT !.returned = TRUE, !.result = result]
  /\ UNCHANGED <<w, subscribers, task, received, last, report, ops, edits, watcher,
               otf, itemList>>

\* locationToTuple on two locations
LocationToTuple ==
  /\ calc.fn = "locationToTuple"
  /\ Returns(<<sortedItems(calc.args[1]), sortedItems(calc.args[2])>>)

\* makeSparseLocation and makeDenseLocation on a location, and each on the
\* result of the other
MakeSparseLocation ==
  /\ calc.fn = "makeSparseLocation"
  /\ \E location \in {calc.args[1]}, dflt \in {calc.args[2]} :
       Returns([sparse |-> makeSparseLocation(location, dflt),
                dense |-> makeDenseLocation(location, dflt),
                denseOfSparse |->
                  makeDenseLocation(makeSparseLocation(location, dflt), dflt),
                sparseOfDense |->
                  makeSparseLocation(makeDenseLocation(location, dflt), dflt)])

MergeKernGroups ==
  /\ calc.fn = "mergeKernGroups"
  /\ Returns(mergeKernGroups(calc.args[1], calc.args[2]))

UnnormalizeLocation ==
  /\ calc.fn = "unnormalizeLocation"
  /\ Returns(unnormalizeLocation(calc.args[1], calc.args[2]))

NextFunctions ==
  \/ LocationToTuple
  \/ MakeSparseLocation
  \/ MergeKernGroups
  \/ UnnormalizeLocation

SpecFunctions == InitFunctions /\ [][NextFunctions]_vars

(***************************************************************************)
(* The steps of the calls                                                  *)
(***************************************************************************)
\* The step is a call of putGlyph, of deleteGlyph, of _watchFiles
PutStep == last'.op = "putGlyph" /\ ops' = ops + 1

DeleteStep == last'.op = "deleteGlyph" /\ ops' = ops + 1

WatchStep == last'.op = "_watchFiles" /\ ops' = ops + 1

\* getGlyph(glyphName) returns a glyph that is equal to glyph
ReadsBackAs(W, glyphName, glyph) ==
  \E got \in {getGlyph(W, glyphName)} :
    /\ ~got.raised
    /\ ~got.absent
    /\ got.glyph.axes = glyph.axes
    /\ got.glyph.sources = glyph.sources
    /\ got.glyph.layers = LayersAsFunction(glyph.layers)
    /\ got.glyph.customData = glyph.customData

\* Every source of the glyph names a LogicalSource of the registry
NamesKnownSources(b, glyph) ==
  \A i \in DOMAIN glyph.sources :
    findSourceByIdentifier(b.dsSources, glyph.sources[i].locationBase) # 0

(***************************************************************************)
(* Writing and reading glyphs                                              *)
(***************************************************************************)
\* C1: after putGlyph(name, glyph, codePoints) has written a glyph whose
\* sources name LogicalSources of the font, getGlyph(name) on the same
\* backend returns a glyph equal to the written one: the same local axes,
\* the same sources (name, locationBase, location, layer alias), the same
\* layers under the same aliases, the same custom data.
RoundTrip ==
  [][(PutStep /\ ~w'.raised /\ NamesKnownSources(w.b, last'.glyph))
       => ReadsBackAs(w', last'.name, last'.glyph)]_vars

\* C5: after deleteGlyph(X) has succeeded, no layer of the registry has X,
\* in memory or on disk, X is not in the glyph map, its ledger entry is
\* "deleted everywhere", and getGlyph(X) returns None on this backend and
\* on a backend opened over the same files.
DeleteThenAbsent ==
  [][(DeleteStep /\ ~w'.raised) =>
       /\ \A i \in DOMAIN w.b.ufoLayers :
            /\ ~inGlyphSet(w'.b, w.b.ufoLayers[i].path, w.b.ufoLayers[i].name,
                           last'.name)
            /\ ~fileExists(w'.d, w.b.ufoLayers[i].path, w.b.ufoLayers[i].name,
                           last'.name)
       /\ last'.name \notin DOMAIN w'.b.glyphMap
       /\ last'.name \in DOMAIN w'.b.savedGlyphModificationTimes
       /\ w'.b.savedGlyphModificationTimes[last'.name] = DeletedEverywhere
       /\ getGlyph(w', last'.name).absent
       /\ getGlyph(OpenedOver(w'.d), last'.name).absent]_vars

\* deleteGlyph("A") has succeeded for a glyph that two layers had
DeleteThenAbsentWitness ==
  /\ last.op = "deleteGlyph"
  /\ last.name = "A"
  /\ ~w.raised
  /\ w.d.layers = TwoSourceDisk.layers
  /\ \A i \in DOMAIN w.d.layers :
       <<w.d.layers[i][1], w.d.layers[i][2], "A">> \notin DOMAIN w.d.glifs
  /\ "A" \notin DOMAIN w.b.glyphMap

\* C6: deleteGlyph(name) for a name that is not in the glyph map raises,
\* and the glyph map, the layers in memory and on disk, the document, the
\* ledger and the dependency graph are as they were before the call.
DeleteUnknownChangesNothing ==
  [][(DeleteStep /\ last'.name \notin DOMAIN w.b.glyphMap) =>
       /\ w'.raised
       /\ w'.b = w.b
       /\ w'.d.glifs = w.d.glifs
       /\ w'.d.layers = w.d.layers
       /\ w'.d.glyphOrder = w.d.glyphOrder
       /\ w'.d.doc = w.d.doc
       /\ task' = task]_vars

\* deleteGlyph("C") has raised on a backend that has glyphs and has
\* computed its dependency graph
DeleteUnknownWitness ==
  /\ last.op = "deleteGlyph"
  /\ last.name = "C"
  /\ w.raised
  /\ "C" \notin DOMAIN w.b.glyphMap
  /\ "A" \in DOMAIN w.b.glyphMap
  /\ ~w.b.glyphDependencies.isNone
  /\ usedBy(w.b.glyphDependencies, "A") # {}

(***************************************************************************)
(* Unknown locationBase                                                    *)
(***************************************************************************)
\* The locationBases of the glyph's sources that name no LogicalSource, in
\* the order of the sources
UnknownBases(b, glyph) ==
  SelectSeq([i \in DOMAIN glyph.sources |-> glyph.sources[i].locationBase],
            LAMBDA base : base # NoName /\ findSourceByIdentifier(b.dsSources, base) = 0)

\* The identifier the backend has remembered when the glyph has been put
RememberedAfter(b, glyph) ==
  IF b.implicitDefaultLocationBase # NoName \/ UnknownBases(b, glyph) = <<>>
  THEN b.implicitDefaultLocationBase
  ELSE UnknownBases(b, glyph)[1]

\* C9: putGlyph raises exactly when a source of the glyph has a
\* locationBase that names no LogicalSource and is not the one unknown
\* identifier the backend remembers (the first it met since it was opened);
\* a source with the remembered identifier is written at the default
\* location, as a source with an empty base location is; the remembered
\* identifier never changes while the backend is open.
UnknownLocationBasePolicy ==
  [][/\ PutStep =>
          /\ w'.b.implicitDefaultLocationBase = RememberedAfter(w.b, last'.glyph)
          /\ w'.raised <=>
               \E i \in DOMAIN UnknownBases(w.b, last'.glyph) :
                 UnknownBases(w.b, last'.glyph)[i] # RememberedAfter(w.b, last'.glyph)
          /\ (~w'.raised /\ last'.glyph \in {GlyphUnknownBase(UnknownId1),
                                              GlyphUnknownBase(UnknownId2)}) =>
               \E got \in {getGlyph(w', last'.name)} :
                 /\ ~got.raised /\ ~got.absent
                 /\ Len(got.glyph.sources) = 1
                 /\ got.glyph.sources[1].locationBase =
                      w'.b.dsSources[defaultDSSource(w'.b.dsSources)].identifier
     /\ (last'.op # "open" /\ w.b.implicitDefaultLocationBase # NoName) =>
          w'.b.implicitDefaultLocationBase = w.b.implicitDefaultLocationBase]_vars

\* putGlyph has raised for a second unknown identifier, after it had
\* accepted a first one
UnknownLocationBaseWitness ==
  /\ last.op = "putGlyph"
  /\ last.glyph = GlyphUnknownBase(UnknownId2)
  /\ w.raised
  /\ w.b.implicitDefaultLocationBase = UnknownId1
  /\ \E glyphName \in DOMAIN w.b.glyphMap :
       ReadsBackAs(w, glyphName,
                   [GlyphUnknownBase(UnknownId1) EXCEPT
                      !.sources[1].locationBase =
                         w.b.dsSources[defaultDSSource(w.b.dsSources)].identifier])

(***************************************************************************)
(* The sources getGlyph returns                                            *)
(***************************************************************************)
\* The LogicalSources whose layer has the glyph, in the registry's order
SourcesHaving(b, glyphName) ==
  SelectSeq(b.dsSources,
            LAMBDA s : inGlyphSet(b, s.layer.path, s.layer.name, glyphName))

\* The glyph's file in the default source's layer
DefaultFile(W, glyphName) ==
  W.d.glifs[<<W.b.dsSources[defaultDSSource(W.b.dsSources)].layer.path,
              W.b.dsSources[defaultDSSource(W.b.dsSources)].layer.name,
              glyphName>>]

\* C10: the sources getGlyph(name) returns are one GlyphSource for each
\* LogicalSource whose layer has the glyph, in the registry's order, with
\* the LogicalSource's identifier as locationBase and a layer alias under
\* which the glyph has the data of that LogicalSource's layer, followed by
\* the glyph's local sources; "A" in two non-sparse sources has exactly two
\* sources, one per source of the font, each on the default layer of its UFO.
SynthesizedSources ==
  /\ \A glyphName \in {"A", "B", "C"} :
       \E got \in {getGlyph(w, glyphName)} :
         (~got.raised /\ ~got.absent) =>
           \E having \in {SourcesHaving(w.b, glyphName)},
              file \in {DefaultFile(w, glyphName)} :
             /\ Len(got.glyph.sources) = Len(having) + Len(file.localSources)
             /\ \A i \in DOMAIN having :
                  /\ got.glyph.sources[i].locationBase = having[i].identifier
                  /\ got.glyph.sources[i].layerName =
                       Get(file.layerNameMapping, having[i].layer.fontraLayerName,
                           having[i].layer.fontraLayerName)
                  /\ got.glyph.sources[i].layerName \in DOMAIN got.glyph.layers
                  /\ got.glyph.layers[got.glyph.sources[i].layerName] =
                       ufoLayerToStaticGlyph(
                         w.d.glifs[<<having[i].layer.path, having[i].layer.name,
                                     glyphName>>])
                  /\ \A j \in DOMAIN having :
                       having[i].identifier = having[j].identifier => i = j
             /\ \A j \in DOMAIN file.localSources :
                  got.glyph.sources[Len(having) + j].name =
                    Get(file.sourceNameMapping, file.localSources[j].name,
                        file.localSources[j].name)
  /\ (w.d.glifs = TwoSourceDisk.glifs /\ w.b.dsSources = newBackend(TwoSourceDisk).dsSources) =>
       \E got \in {getGlyph(w, "A")} :
         /\ ~got.raised /\ ~got.absent
         /\ Len(got.glyph.sources) = 2
         /\ got.glyph.sources[1].locationBase = RegularId
         /\ got.glyph.sources[2].locationBase = BoldId
         /\ got.glyph.layers[got.glyph.sources[1].layerName] =
              ufoLayerToStaticGlyph(
                TwoSourceDisk.glifs[<<RegularPath, DefaultLayerName, "A">>])
         /\ got.glyph.layers[got.glyph.sources[2].layerName] =
              ufoLayerToStaticGlyph(
                TwoSourceDisk.glifs[<<BoldPath, DefaultLayerName, "A">>])

\* "A" is in both sources of the font and has two sources, and "C" has
\* been written with a local source, which follows its synthesized source
SynthesizedSourcesWitness ==
  /\ last.op = "putGlyph"
  /\ last.name = "C"
  /\ last.glyph = GlyphLocalAxis
  /\ ~w.raised
  /\ Len(SourcesHaving(w.b, "A")) = 2
  /\ Len(getGlyph(w, "A").glyph.sources) = 2
  /\ Len(SourcesHaving(w.b, "C")) = 1
  /\ Len(getGlyph(w, "C").glyph.sources) = 2
  /\ getGlyph(w, "C").glyph.sources[2].name = <<"alt">>

(***************************************************************************)
(* The reconciliation of external changes                                  *)
(***************************************************************************)
\* C2: when no other program has edited the files, processing the change
\* events of the backend's own putGlyph and deleteGlyph calls yields the
\* empty reload pattern (no changed glyphs, no glyph map update), and no
\* subscriber is notified.
OwnEditsNotReported ==
  (last.op = "_watchFiles" /\ edits = 0 /\ report.own /\ ~report.raised) =>
    /\ report.reloadPattern = EmptyPattern
    /\ report.notified = 0

\* The timestamps the ledger has for a glyph: none when the backend never
\* wrote the glyph, or deleted it
LedgerTimes(b, glyphName) ==
  IF glyphName \notin DOMAIN b.savedGlyphModificationTimes THEN {}
  ELSE b.savedGlyphModificationTimes[glyphName].times

\* The modification events of the batch for a glyph file that is in the
\* file name map, and whose modification time the ledger does not have
ExternalModifications(W, batch) ==
  {e \in cleanupWatchFilesChanges(W.d, batch) :
     /\ e[1] = ChangeModified
     /\ isGlif(e[2])
     /\ e[2][4] \in DOMAIN W.b.glifFileNames
     /\ pathExists(W.d, e[2])
     /\ fileModTime(W.d, e[2][2], e[2][3], GlyphNameOfFile(e[2][4]))
          \notin LedgerTimes(W.b, W.b.glifFileNames[e[2][4]])}

\* C3: when a batch without a change of the document is processed, every
\* glyph with a modification event for a known glyph file whose
\* modification time is not in the ledger is among the changed glyphs of
\* the reload pattern, and every subscriber is notified.
ExternalEditsReported ==
  [][(WatchStep /\ ~report'.raised /\ ~report'.reloadPattern.isNone) =>
       \A e \in ExternalModifications(w, report'.batch) :
         /\ w.b.glifFileNames[e[2][4]] \in report'.reloadPattern.glyphs
         /\ report'.notified = subscribers]_vars

\* Whether the batch has an event for the document, and the document's
\* modification time is not the one the backend has recorded
DocumentChanged(W, batch) ==
  /\ \E e \in batch : isDesignspace(e[2])
  /\ W.b.dsDocModTime # W.d.doc.mtime

\* C4: a batch leads to a full reload (the registry and the rest of the
\* state that _initialize builds are rebuilt from the files, and the
\* subscribers are notified with the pattern None) exactly when it has an
\* event for the document and the document's modification time differs
\* from the recorded one; otherwise the registry is not rebuilt and the
\* pattern is not None.
FullReloadDecision ==
  [][WatchStep =>
       IF DocumentChanged(w, report'.batch)
       THEN /\ report'.reloadPattern = ReloadEverything
            /\ report'.notified = subscribers
            /\ ~report'.raised
            /\ w'.b = _initialize(w.d, [glyphDependencies |-> w.b.glyphDependencies,
                                        implicitDefaultLocationBase |->
                                          w.b.implicitDefaultLocationBase,
                                        class |-> w.b.class])
       ELSE /\ ~report'.reloadPattern.isNone
            /\ w'.b.dsSources = w.b.dsSources
            /\ w'.b.ufoLayers = w.b.ufoLayers
            /\ w'.b.dsDocModTime = w.b.dsDocModTime
            /\ w'.b.savedGlyphModificationTimes = w.b.savedGlyphModificationTimes]_vars

\* A batch with an event for the document that another program wrote has
\* led to a full reload, after the backend had written the document itself
FullReloadWitness ==
  /\ last.op = "_watchFiles"
  /\ report.reloadPattern = ReloadEverything
  /\ report.notified = 1
  /\ DocPath \in {e[2] : e \in report.batch}
  /\ Len(w.b.dsSources) = 3
  /\ w.b.savedGlyphModificationTimes = EmptyDict

(***************************************************************************)
(* The dependency graph                                                    *)
(***************************************************************************)
\* The glyph names of the fonts and of the calls
AllGlyphNames == GlyphNames \cup {"B"}

\* C7: when the dependency graph has been computed, after putGlyph(Z, g)
\* findGlyphsThatUseGlyph(A) contains Z exactly when A is a component in a
\* layer of g, and after a deleteGlyph(Z) that succeeded no
\* findGlyphsThatUseGlyph(A) contains Z; the other glyphs' entries are as
\* before, and the build task is not touched.
IncrementalDependencies ==
  [][~w.b.glyphDependencies.isNone =>
       /\ PutStep =>
            /\ \A a \in AllGlyphNames :
                 last'.name \in findGlyphsThatUseGlyph(w'.b.glyphDependencies, a)
                   <=> \E i \in DOMAIN last'.glyph.layers :
                         a \in last'.glyph.layers[i].glyph.components
            /\ \A a, z \in AllGlyphNames :
                 z # last'.name =>
                   (z \in findGlyphsThatUseGlyph(w'.b.glyphDependencies, a)
                      <=> z \in findGlyphsThatUseGlyph(w.b.glyphDependencies, a))
            /\ task' = task
       /\ (DeleteStep /\ ~w'.raised) =>
            /\ \A a \in AllGlyphNames :
                 last'.name \notin findGlyphsThatUseGlyph(w'.b.glyphDependencies, a)
            /\ \A a, z \in AllGlyphNames :
                 z # last'.name =>
                   (z \in findGlyphsThatUseGlyph(w'.b.glyphDependencies, a)
                      <=> z \in findGlyphsThatUseGlyph(w.b.glyphDependencies, a))
            /\ task' = task]_vars

\* After the build, "C" has been put with the component "A", next to "B",
\* which the build found to use "A"
IncrementalDependenciesWitness ==
  /\ last.op = "putGlyph"
  /\ last.name = "C"
  /\ last.glyph = GlyphWithComponent
  /\ task.state = "done"
  /\ task.started = 1
  /\ findGlyphsThatUseGlyph(w.b.glyphDependencies, "A") = {"B", "C"}

\* C8: the build task is created at most once, one graph is made, and the
\* callers that have received a graph have received that one, which is the
\* graph of the backend; the callers that asked before the task was done
\* have got the task's result.
BuildStartedOnce ==
  /\ task.started <= 1
  /\ task.made <= 1
  /\ \A c \in Callers :
       received[c] # 0 =>
         /\ received[c] = w.b.glyphDependencies.id
         /\ c \in task.waiting => task.state = "done" /\ received[c] = task.result.id
  /\ \A c \in task.waiting : task.state = "done" => received[c] = task.result.id

\* Both callers have awaited the one task, and have its result
BuildStartedOnceWitness ==
  /\ task.state = "done"
  /\ task.started = 1
  /\ task.waiting = Callers
  /\ \A c \in Callers : received[c] = task.result.id /\ received[c] # 0

(***************************************************************************)
(* The canonical key of a location                                         *)
(***************************************************************************)
\* The step is the return of a call of fn
Returned(fn) == calc.fn = fn /\ calc.returned

\* C11: the canonical key of a location lists exactly the location's
\* (axis, value) pairs, in the order of the axis names; two locations with
\* the same mapping from axes to values have the same key whatever the order
\* their axes were inserted in, and locations with different mappings have
\* different keys.
CanonicalKey ==
  Returned("locationToTuple") =>
    /\ \A k \in 1..2 :
         /\ Len(calc.result[k]) = Len(calc.args[k])
         /\ Range(calc.result[k]) = Range(calc.args[k])
         /\ \A i, j \in DOMAIN calc.result[k] :
              i < j => axisRank(calc.result[k][i][1]) < axisRank(calc.result[k][j][1])
         /\ calc.result[k] = locationToTuple([n \in OKeys(calc.args[k]) |-> OGet(calc.args[k], n, 0)])
    /\ (calc.result[1] = calc.result[2])
         <=> (Range(calc.args[1]) = Range(calc.args[2]))

\* Two locations with the same three axes, inserted in different orders
CanonicalKeyWitness ==
  /\ Returned("locationToTuple")
  /\ Len(calc.args[1]) = MaxAxes
  /\ calc.args[1] # calc.args[2]
  /\ Range(calc.args[1]) = Range(calc.args[2])
  /\ calc.result[1] = calc.result[2]
  /\ calc.result[1] # calc.args[1]

(***************************************************************************)
(* Dense and sparse locations                                              *)
(***************************************************************************)
\* The location has only axes of the default location, at other values
IsSparseFor(location, dflt) ==
  \A n \in DOMAIN location : n \in DOMAIN dflt /\ location[n] # dflt[n]

\* C12: for a fixed default location, the dense form of the sparse form of a
\* location is the dense form of the location, and the sparse form of the
\* dense form of a location that has only axes of the default location, at
\* values other than the default's, is that location.
DenseSparseInverses ==
  Returned("makeSparseLocation") =>
    /\ calc.result.denseOfSparse = calc.result.dense
    /\ IsSparseFor(calc.args[1], calc.args[2])
         => calc.result.sparseOfDense = calc.args[1]

\* A location with an axis at the default value, an axis at another value
\* and an axis the default location does not have; a sparse location
DenseSparseWitness ==
  /\ Returned("makeSparseLocation")
  /\ \/ /\ \E n \in DOMAIN calc.args[1] : n \notin DOMAIN calc.args[2]
        /\ \E n \in DOMAIN calc.args[1] \cap DOMAIN calc.args[2] :
             calc.args[1][n] = calc.args[2][n]
        /\ \E n \in DOMAIN calc.args[1] \cap DOMAIN calc.args[2] :
             calc.args[1][n] # calc.args[2][n] /\ calc.args[2][n] # 0
        /\ calc.result.sparse # calc.args[1]
        /\ calc.result.dense # calc.args[1]
     \/ /\ IsSparseFor(calc.args[1], calc.args[2])
        /\ calc.args[1] # EmptyDict
        /\ DOMAIN calc.args[1] # DOMAIN calc.args[2]
        /\ calc.result.dense # calc.args[1]

(***************************************************************************)
(* The merge of kerning groups                                             *)
(***************************************************************************)
\* The positions of listB whose member does not occur in listA
Unseen(listA, listB) == {i \in DOMAIN listB : listB[i] \notin Range(listA)}

\* merged is listA, followed by the members of listB that do not occur in
\* listA, in the order of listB
IsMergeOf(merged, listA, listB) ==
  /\ Len(merged) = Len(listA) + Cardinality(Unseen(listA, listB))
  /\ \A i \in DOMAIN listA : merged[i] = listA[i]
  /\ \A i \in Unseen(listA, listB) :
       merged[Len(listA) + Cardinality({j \in Unseen(listA, listB) : j <= i})]
         = listB[i]

\* C13: the merge of the groups of two sources has the group names of both;
\* a group of one source only keeps its member list, a group with the same
\* list in both keeps that list, and any other group gets the first source's
\* list followed by the members of the second list that the first does not
\* have, in the second list's order.
KernGroupMerge ==
  Returned("mergeKernGroups") =>
    \E groupsA \in {calc.args[1]}, groupsB \in {calc.args[2]} :
      /\ DOMAIN calc.result = (DOMAIN groupsA) \cup (DOMAIN groupsB)
      /\ \A g \in (DOMAIN groupsA) \ (DOMAIN groupsB) : calc.result[g] = groupsA[g]
      /\ \A g \in (DOMAIN groupsB) \ (DOMAIN groupsA) : calc.result[g] = groupsB[g]
      /\ \A g \in (DOMAIN groupsA) \cap (DOMAIN groupsB) :
           IF groupsA[g] = groupsB[g]
           THEN calc.result[g] = groupsA[g]
           ELSE IsMergeOf(calc.result[g], groupsA[g], groupsB[g])

\* [A, B] merged with [A, B, C] gives [A, B, C], next to a group that only
\* the second source has
KernGroupMergeWitness ==
  /\ Returned("mergeKernGroups")
  /\ "public.kern1.O" \in DOMAIN calc.args[1]
  /\ "public.kern1.O" \in DOMAIN calc.args[2]
  /\ calc.args[1]["public.kern1.O"] = <<"A", "B">>
  /\ calc.args[2]["public.kern1.O"] = <<"A", "B", "C">>
  /\ calc.result["public.kern1.O"] = <<"A", "B", "C">>
  /\ "public.kern2.O" \notin DOMAIN calc.args[1]
  /\ "public.kern2.O" \in DOMAIN calc.result

(***************************************************************************)
(* From normalized values to user space                                    *)
(***************************************************************************)
\* r is what the normalized value v is in user space on the axis
IsUnnormalized(r, v, axis) ==
  /\ axis.minValue <= r /\ r <= axis.maxValue
  /\ v = 0 - Whole(1) => r = axis.minValue
  /\ v = 0 => r = axis.defaultValue
  /\ v = Whole(1) => r = axis.maxValue
  /\ v < 0 - Whole(1) => r = axis.minValue
  /\ v > Whole(1) => r = axis.maxValue
  /\ (0 - Whole(1) <= v /\ v <= 0)
       => (r - axis.defaultValue) * Scale = v * (axis.defaultValue - axis.minValue)
  /\ (0 <= v /\ v <= Whole(1))
       => (r - axis.defaultValue) * Scale = v * (axis.maxValue - axis.defaultValue)

\* C20: unnormalizeLocation, given axes with minimum <= default <= maximum,
\* maps -1, 0 and 1 to the axis minimum, default and maximum, interpolates
\* linearly on either side of the default, clamps values outside [-1, 1] to
\* the minimum and the maximum, and returns a value for exactly the axes of
\* the list that the location has.
UnnormalizePiecewiseLinear ==
  Returned("unnormalizeLocation") =>
    \E location \in {calc.args[1]}, axisList \in {calc.args[2]} :
      /\ DOMAIN calc.result \subseteq DOMAIN location
      /\ \A i \in DOMAIN axisList :
           axisList[i].name \in DOMAIN location =>
             /\ axisList[i].name \in DOMAIN calc.result
             /\ IsUnnormalized(calc.result[axisList[i].name],
                               location[axisList[i].name], axisList[i])
      /\ \A n \in DOMAIN calc.result : \E i \in DOMAIN axisList : axisList[i].name = n

\* A value strictly between -1 and 0 on an axis with minimum < default <
\* maximum, next to an axis that is not in the list
UnnormalizeWitness ==
  /\ Returned("unnormalizeLocation")
  /\ "wght" \in DOMAIN calc.result
  /\ "loc" \in DOMAIN calc.args[1]
  /\ calc.args[1]["wght"] < 0 /\ calc.args[1]["wght"] > 0 - Whole(1)
  /\ calc.args[2][1].minValue < calc.args[2][1].defaultValue
  /\ calc.args[2][1].defaultValue < calc.args[2][1].maxValue
  /\ calc.result["wght"] < calc.args[2][1].defaultValue
  /\ calc.result["wght"] > calc.args[2][1].minValue
  /\ DOMAIN calc.result # DOMAIN calc.args[1]

(***************************************************************************)
(* The default source                                                      *)
(***************************************************************************)
\* The sources of the registry that are flagged as the default source
DefaultSources(b) == {i \in DOMAIN b.dsSources : b.dsSources[i].isDefault}

\* C14: whenever the registry holds a source, exactly one source is flagged
\* as the default source, and it is at the default location of the axes.
DefaultSourceInvariant ==
  w.b.dsSources # <<>> =>
    /\ Cardinality(DefaultSources(w.b)) = 1
    /\ \A i \in DefaultSources(w.b) : w.b.dsSources[i].location = defaultLocation

(***************************************************************************)
(* putSources and the sparse flag                                          *)
(***************************************************************************)
PutSourcesStep == last'.op = "putSources" /\ ops' = ops + 1

\* The source of the registry an incoming source stands for: the one with
\* its identifier, else the deleted source with its identifier, else the
\* first one at its location
Resolves(b, identifier, fontSource) ==
  IF \E i \in DOMAIN b.dsSources : b.dsSources[i].identifier = identifier
  THEN {b.dsSources[CHOOSE i \in DOMAIN b.dsSources :
                      /\ b.dsSources[i].identifier = identifier
                      /\ \A j \in 1..(i - 1) : b.dsSources[j].identifier # identifier]}
  ELSE IF identifier \in DOMAIN b.zombieDSSources
  THEN {b.zombieDSSources[identifier]}
  ELSE {b.dsSources[i] : i \in
          {j \in DOMAIN b.dsSources :
             /\ b.dsSources[j].location
                  = makeDenseLocation(fontSource.location, defaultLocation)
             /\ \A h \in 1..(j - 1) :
                  b.dsSources[h].location
                    # makeDenseLocation(fontSource.location, defaultLocation)}}

\* An incoming source stands for a source whose layer is of the other kind
FlipsSparse(b, sources) ==
  \E k \in DOMAIN sources :
    \E dsSource \in Resolves(b, sources[k][1], sources[k][2]) :
      (dsSource.layer.name # DefaultLayerName) # sources[k][2].isSparse

\* C15: putSources raises when an incoming source stands for a source of
\* the registry whose isSparse differs from the incoming one, and then the
\* registry of sources and the registry of layers are as before the call.
SparseFlipRejected ==
  [][PutSourcesStep /\ FlipsSparse(w.b, last'.glyph) =>
       /\ w'.raised
       /\ w'.b.dsSources = w.b.dsSources
       /\ w'.b.ufoLayers = w.b.ufoLayers]_vars

(***************************************************************************)
(* putKerning and the sources it cannot write to                           *)
(***************************************************************************)
PutKerningStep == last'.op = "putKerning" /\ ops' = ops + 1

\* The table lists an identifier that no source has, or that a sparse
\* source has
ListsUnknown(b, kerningTable) ==
  \E i \in DOMAIN kerningTable.sourceIdentifiers :
    \A k \in DOMAIN b.dsSources :
      b.dsSources[k].identifier # kerningTable.sourceIdentifiers[i]

ListsSparse(b, kerningTable) ==
  \E i \in DOMAIN kerningTable.sourceIdentifiers :
    \E k \in DOMAIN b.dsSources :
      /\ b.dsSources[k].identifier = kerningTable.sourceIdentifiers[i]
      /\ b.dsSources[k].layer.name # DefaultLayerName

\* The groups and the values a table holds
GroupListsOf(kerningTable) ==
  {kerningTable.groupsSide1[g] : g \in DOMAIN kerningTable.groupsSide1}
    \cup {kerningTable.groupsSide2[g] : g \in DOMAIN kerningTable.groupsSide2}

ValuesOf(kerningTable) ==
  {kerningTable.values[pair][i] :
     pair \in DOMAIN kerningTable.values, i \in DOMAIN kerningTable.sourceIdentifiers}
    \ {NoValue}

\* Nothing of the table is in the groups and the kerning of d2 unless it was
\* in those of d1 already
NothingWritten(d1, d2, kerningTable) ==
  \A p \in DOMAIN d2.groups :
    /\ \A g \in DOMAIN d2.groups[p] :
         d2.groups[p][g] \in GroupListsOf(kerningTable) =>
           /\ p \in DOMAIN d1.groups
           /\ d2.groups[p] = d1.groups[p]
    /\ \A pair \in DOMAIN d2.kerning[p] :
         d2.kerning[p][pair] \in ValuesOf(kerningTable) =>
           /\ p \in DOMAIN d1.kerning
           /\ d2.kerning[p] = d1.kerning[p]

\* C16: putKerning raises when a table lists a source identifier that is
\* unknown or that belongs to a sparse source, and then no group and no
\* kerning value of that table is written to any UFO; when no table before
\* it is a "kern" table, the groups and the kerning of all UFOs are as before.
KerningRejected ==
  [][PutKerningStep =>
       \A t \in DOMAIN last'.glyph :
         (/\ ListsUnknown(w.b, last'.glyph[t][2]) \/ ListsSparse(w.b, last'.glyph[t][2])
          /\ \A j \in 1..(t - 1) :
               ~(ListsUnknown(w.b, last'.glyph[j][2])
                   \/ ListsSparse(w.b, last'.glyph[j][2])))
         => /\ w'.raised
            /\ NothingWritten(w.d, w'.d, last'.glyph[t][2])
            /\ (\A j \in 1..(t - 1) : last'.glyph[j][1] # "kern")
                 => /\ w'.d.groups = w.d.groups
                    /\ w'.d.kerning = w.d.kerning]_vars

\* A table that lists a sparse source was rejected, after a table was written
KerningRejectedWitness ==
  /\ last.op = "putKerning"
  /\ w.raised
  /\ ListsSparse(w.b, last.glyph[1][2])
  /\ ~ListsUnknown(w.b, last.glyph[1][2])
  /\ \E p \in DOMAIN w.d.kerning : w.d.kerning[p] # EmptyDict
  /\ \E p \in DOMAIN w.d.groups : w.d.groups[p] # EmptyDict

\* C17: on the single-UFO backend, a putAxes with an axis or a mapping and a
\* putSources with more than one source raise an error, and leave the
\* sources of the backend (the registry, the document, the layers and the
\* files) as they were.  The axes are not state of the backend here:
\* UFOBackend.putAxes assigns nothing.
DeclaresAxes ==
  /\ last'.op = "putAxes"
  /\ ops' = ops + 1
  /\ (last'.glyph.axes # <<>> \/ last'.glyph.mappings # <<>>)

DeclaresSources ==
  /\ last'.op = "putSources"
  /\ ops' = ops + 1
  /\ Len(last'.glyph) > 1

SingleUFORejects ==
  [][(w.b.class = "UFOBackend" /\ (DeclaresAxes \/ DeclaresSources)) =>
       /\ w'.raised
       /\ w'.b = w.b
       /\ w'.d = [w.d EXCEPT !.clock = @ + 1]]_vars


\* C18: aclose cancels the computation of the dependency graph when it is
\* in flight, and it returns without waiting for a loop that awaits the
\* callbacks of the subscribers; once aclose has been called, from some
\* moment on no loop of the file watcher is running (so no batch is
\* delivered to _fileWatcherCallback any more).
AcloseStep == ~watcher.closed /\ watcher'.closed

CancelsDependencies ==
  task.state \in {"running", "scanned"} => task'.state = "cancelled"

DoesNotAwaitCallbacks ==
  \A i \in DOMAIN watcher.loops :
    watcher.loops[i].state = "callback" =>
      watcher'.loops[i].state \in {"callback", "cancelled"}

WatcherStopped == running(watcher) = {}

AcloseStopsEverything ==
  /\ [][AcloseStep => CancelsDependencies /\ DoesNotAwaitCallbacks]_vars
  /\ [](watcher.closed => <>[]WatcherStopped)


\* C19: with a subscriber, every batch of change events of the font file
\* makes the binary-font backend load the font from the file again and call
\* every subscriber with the pattern None, so that getGlyph then returns the
\* glyphs of the file.
FontReloaded ==
  [][(WatchStep /\ otf.font # EmptyDict) =>
       /\ otf'.font = otf.file
       /\ report'.reloadPattern = ReloadEverything
       /\ report'.notified = subscribers
       /\ \A glyphName \in GlyphNames :
            otfGetGlyph(otf', glyphName) =
              IF glyphName \in DOMAIN otf.file
              THEN [absent |-> FALSE, xAdvance |-> otf.file[glyphName]]
              ELSE [absent |-> TRUE, xAdvance |-> NoValue]]_vars



(***************************************************************************)
(* The events of a batch that is handled incrementally                     *)
(***************************************************************************)
\* _watchFiles has called the callback, which handled the batch without a
\* full reload and without raising
IncrementalStep == WatchStep /\ ~report'.raised /\ ~report'.reloadPattern.isNone

\* The events of one kind the callback gets for glyph files
GlyphEvents(W, batch, change) ==
  {e \in cleanupWatchFilesChanges(W.d, batch) : e[1] = change /\ isGlif(e[2])}

\* The deletion events for a glyph file whose name is in the file name map
DeletionEventsOf(W, batch) ==
  {e \in GlyphEvents(W, batch, ChangeDeleted) : e[2][4] \in DOMAIN W.b.glifFileNames}

\* The file of the event is in the default source's layer
InDefaultSource(W, e) ==
  e[2][2] = W.b.docDefaultPath /\ e[2][3] = DefaultLayerName

\* C21: for a deletion event of a known glyph file the listings are
\* rebuilt; when the file was in the default source's layer, its name is
\* removed from the file name map and the glyph is removed from the glyph
\* map, which the reload pattern reports; when the file was in a package
\* other than the default one, the file name and the glyph map entry stay,
\* and the glyph is among the changed glyphs when another program deleted
\* the file.
DeletionEvents ==
  [][IncrementalStep =>
       \A e \in DeletionEventsOf(w, report'.batch) :
         /\ w'.b.contents = contentsOfLayers(w.d, w.b.ufoLayers)
         /\ InDefaultSource(w, e) =>
              /\ e[2][4] \notin DOMAIN w'.b.glifFileNames
              /\ w.b.glifFileNames[e[2][4]] \notin DOMAIN w'.b.glyphMap
              /\ w.b.glifFileNames[e[2][4]] \in DOMAIN w.b.glyphMap =>
                   report'.reloadPattern.glyphMap
         /\ e[2][2] # w.b.docDefaultPath =>
              /\ (\A f \in DeletionEventsOf(w, report'.batch) :
                    f[2][4] = e[2][4] => ~InDefaultSource(w, f)) =>
                   /\ e[2][4] \in DOMAIN w'.b.glifFileNames
                   /\ w.b.glifFileNames[e[2][4]] \in DOMAIN w.b.glyphMap =>
                        w.b.glifFileNames[e[2][4]] \in DOMAIN w'.b.glyphMap
              /\ KeyOfPath(e[2]) \in w.touched =>
                   w.b.glifFileNames[e[2][4]] \in report'.reloadPattern.glyphs]_vars


\* The glyph has a file in the default source's layer
InDefaultLayer(W, glyphName) ==
  /\ defaultDSSource(W.b.dsSources) # 0
  /\ fileExists(W.d, W.b.dsSources[defaultDSSource(W.b.dsSources)].layer.path,
                W.b.dsSources[defaultDSSource(W.b.dsSources)].layer.name, glyphName)

\* The batch has a deletion event for the file name in the default
\* source's layer
DeletedFromDefault(W, batch, fileName) ==
  \E f \in GlyphEvents(W, batch, ChangeDeleted) :
    f[2][4] = fileName /\ InDefaultSource(W, f)

\* What _fileWatcherCallback does for an addition event of a glyph file:
\* the listings are rebuilt;
\* when the file name is not in the file name map, the map gains the file
\* name with the glyph name of the file, and, provided that the default
\* source's layer has the glyph, the glyph enters the glyph map with the
\* code points of its file there, which the reload pattern reports; a
\* glyph that the default source's layer does not have does not enter the
\* glyph map; when the file name is known, the glyph's entry in the glyph
\* map is not added or replaced.
AdditionEventsInDefaultLayer ==
  [][IncrementalStep =>
       \A e \in GlyphEvents(w, report'.batch, ChangeAdded) :
         \E fileName \in {e[2][4]} :
           /\ w'.b.contents = contentsOfLayers(w.d, w.b.ufoLayers)
           /\ fileName \notin DOMAIN w.b.glifFileNames =>
                \E glyphName \in {GlyphNameOfFile(fileName)} :
                  /\ ~DeletedFromDefault(w, report'.batch, fileName) =>
                       /\ fileName \in DOMAIN w'.b.glifFileNames
                       /\ w'.b.glifFileNames[fileName] = glyphName
                  /\ InDefaultLayer(w, glyphName) =>
                       /\ glyphName \in DOMAIN w'.b.glyphMap
                       /\ w'.b.glyphMap[glyphName] = DefaultFile(w, glyphName).unicodes
                       /\ report'.reloadPattern.glyphMap
                       /\ report'.notified = subscribers
                  /\ ~InDefaultLayer(w, glyphName) =>
                       (glyphName \in DOMAIN w'.b.glyphMap =>
                          /\ glyphName \in DOMAIN w.b.glyphMap
                          /\ w'.b.glyphMap[glyphName] = w.b.glyphMap[glyphName])
           /\ fileName \in DOMAIN w.b.glifFileNames =>
                \E glyphName \in {w.b.glifFileNames[fileName]} :
                  glyphName \in DOMAIN w'.b.glyphMap =>
                    /\ glyphName \in DOMAIN w.b.glyphMap
                    /\ w'.b.glyphMap[glyphName] = w.b.glyphMap[glyphName]]_vars

\* C22: for an addition event of a glyph file the listings are rebuilt;
\* when the file name is not in the file name map, the map gains the file
\* name and the glyph enters the glyph map, which the reload pattern
\* reports; when the file name is known, the glyph does not enter the
\* glyph map as a new glyph.
AdditionEvents ==
  [][IncrementalStep =>
       \A e \in GlyphEvents(w, report'.batch, ChangeAdded) :
         /\ w'.b.contents = contentsOfLayers(w.d, w.b.ufoLayers)
         /\ e[2][4] \notin DOMAIN w.b.glifFileNames =>
              /\ ~DeletedFromDefault(w, report'.batch, e[2][4]) =>
                   e[2][4] \in DOMAIN w'.b.glifFileNames
              /\ GlyphNameOfFile(e[2][4]) \in DOMAIN w'.b.glyphMap
              /\ report'.reloadPattern.glyphMap
         /\ e[2][4] \in DOMAIN w.b.glifFileNames =>
              (w.b.glifFileNames[e[2][4]] \in DOMAIN w'.b.glyphMap =>
                 w.b.glifFileNames[e[2][4]] \in DOMAIN w.b.glyphMap)]_vars


\* The modification events of the batch for a known glyph file whose
\* modification time is a timestamp of the glyph's ledger
EchoEvents(W, batch) ==
  {e \in GlyphEvents(W, batch, ChangeModified) :
     /\ e[2][4] \in DOMAIN W.b.glifFileNames
     /\ pathExists(W.d, e[2])
     /\ fileModTime(W.d, e[2][2], e[2][3], GlyphNameOfFile(e[2][4]))
          \in LedgerTimes(W.b, W.b.glifFileNames[e[2][4]])}

\* The events of the batch for files of the glyph
EventsOfGlyph(W, batch, glyphName) ==
  {e \in cleanupWatchFilesChanges(W.d, batch) :
     /\ isGlif(e[2])
     /\ e[2][4] \in DOMAIN W.b.glifFileNames
     /\ W.b.glifFileNames[e[2][4]] = glyphName}

\* C23: for a modification event whose file's modification time is a
\* timestamp of the glyph's ledger, the glyph is not reported changed (when
\* the batch has no other event for the glyph), and the timestamp is not in
\* the glyph's ledger afterwards.
EchoConsumed ==
  [][IncrementalStep =>
       \A e \in EchoEvents(w, report'.batch) :
         \E glyphName \in {w.b.glifFileNames[e[2][4]]} :
           /\ EventsOfGlyph(w, report'.batch, glyphName) \subseteq
                EchoEvents(w, report'.batch) =>
                  glyphName \notin report'.reloadPattern.glyphs
           /\ fileModTime(w.d, e[2][2], e[2][3], GlyphNameOfFile(e[2][4]))
                \notin LedgerTimes(w'.b, glyphName)]_vars

\* The callback leaves the ledger as it is
LedgerKept ==
  [][IncrementalStep =>
       /\ w'.b.savedGlyphModificationTimes = w.b.savedGlyphModificationTimes
       /\ \A e \in EchoEvents(w, report'.batch) :
            EventsOfGlyph(w, report'.batch, w.b.glifFileNames[e[2][4]]) \subseteq
              EchoEvents(w, report'.batch) =>
                w.b.glifFileNames[e[2][4]] \notin report'.reloadPattern.glyphs]_vars


(***************************************************************************)
(* What putGlyph leaves in the ledger and in the layers                    *)
(***************************************************************************)
\* The layers (UFO path, layer name) that have a file of the glyph
FilesOf(d, glyphName) == {<<k[1], k[2]>> : k \in {f \in DOMAIN d.glifs : f[3] = glyphName}}

\* C24: after a putGlyph(name, ...) that completed, the ledger entry of
\* name is the set of the modification times of the glyph's files in the
\* layers the call wrote, with None exactly when the call deleted the file
\* of the glyph in a layer; nothing of the entry before is kept.
LedgerAfterPut ==
  [][(PutStep /\ ~w'.raised) =>
       /\ last'.name \in DOMAIN w'.b.savedGlyphModificationTimes
       /\ w'.b.savedGlyphModificationTimes[last'.name] =
            SavedTimes(
              {w'.d.glifs[<<l[1], l[2], last'.name>>].mtime :
                 l \in {f \in FilesOf(w'.d, last'.name) :
                          w'.d.glifs[<<f[1], f[2], last'.name>>].mtime > w.d.clock}}
              \cup (IF FilesOf(w.d, last'.name) \ FilesOf(w'.d, last'.name) # {}
                    THEN {NoTime} ELSE {}))]_vars

\* A second putGlyph of "A" has written one layer and pruned another
LedgerAfterPutWitness ==
  /\ last.op = "putGlyph"
  /\ last.name = "A"
  /\ ~w.raised
  /\ ops >= 2
  /\ w.d.clock >= 2
  /\ "A" \in DOMAIN w.b.savedGlyphModificationTimes
  /\ w.b.savedGlyphModificationTimes["A"] = SavedTimes({NoTime, w.d.clock})


\* The layers of the registry whose glyph set has the glyph
LayersHaving(b, glyphName) ==
  {<<b.ufoLayers[i].path, b.ufoLayers[i].name>> :
     i \in {j \in DOMAIN b.ufoLayers :
              inGlyphSet(b, b.ufoLayers[j].path, b.ufoLayers[j].name, glyphName)}}

\* The alias map the call has stored with the glyph, from the registry's
\* layer names to the names the glyph uses
StoredAliases(W, glyphName) ==
  IF InDefaultLayer(W, glyphName) THEN DefaultFile(W, glyphName).layerNameMapping
  ELSE EmptyDict

\* The layers of the registry that glyph.layers refers to, through the
\* alias map
LayersReferenced(W, glyphName, glyph) ==
  {<<W.b.ufoLayers[i].path, W.b.ufoLayers[i].name>> :
     i \in {j \in DOMAIN W.b.ufoLayers :
              Get(StoredAliases(W, glyphName), W.b.ufoLayers[j].fontraLayerName,
                  W.b.ufoLayers[j].fontraLayerName)
                \in {glyph.layers[k].name : k \in DOMAIN glyph.layers}}}

\* The layers in which the call has written a file of the glyph
LayersWritten(before, after, glyphName) ==
  {l \in FilesOf(after, glyphName) :
     after.glifs[<<l[1], l[2], glyphName>>].mtime > before.clock}

\* C25: after a putGlyph(name, glyph, ...) that completed, the layers whose
\* glyph set has the glyph are the layers the call wrote, at most one for
\* each layer name of glyph.layers, and they are the layers glyph.layers refers
\* to through the alias map stored with the glyph; every layer that had
\* the glyph before and was not written has lost the glyph and its file,
\* and when it is the default layer of a UFO the glyph is not in that UFO's
\* glyph order.
PruningOnWrite ==
  [][(PutStep /\ ~w'.raised) =>
       /\ LayersHaving(w'.b, last'.name) = LayersWritten(w.d, w'.d, last'.name)
       /\ Cardinality(LayersHaving(w'.b, last'.name)) <=
            Cardinality({last'.glyph.layers[k].name : k \in DOMAIN last'.glyph.layers})
       /\ InDefaultLayer(w', last'.name) =>
            LayersHaving(w'.b, last'.name) =
              LayersReferenced(w', last'.name, last'.glyph)
       /\ \A l \in LayersHaving(w.b, last'.name) \
                     LayersWritten(w.d, w'.d, last'.name) :
            /\ ~inGlyphSet(w'.b, l[1], l[2], last'.name)
            /\ ~fileExists(w'.d, l[1], l[2], last'.name)
            /\ l[2] = DefaultLayerName =>
                 last'.name \notin Range(w'.d.glyphOrder[l[1]].order)]_vars

\* putGlyph has pruned "A" from the default layer of Regular.ufo, where it
\* was in the glyph order, and has kept it in Bold.ufo
PruningOnWriteWitness ==
  /\ last.op = "putGlyph"
  /\ last.name = "A"
  /\ last.glyph = GlyphBoldOnly
  /\ ~w.raised
  /\ LayersHaving(w.b, "A") = {<<BoldPath, DefaultLayerName>>}
  /\ ~fileExists(w.d, RegularPath, DefaultLayerName, "A")
  /\ w.d.glyphOrder[RegularPath].order = <<"B">>


(***************************************************************************)
(* The source that is created for a new location                           *)
(***************************************************************************)
\* AxisDescriptor and DiscreteAxisDescriptor of the designspace document;
\* map is the list of (user value, design value) of the axis
AxisDescriptor(name, minimum, default, maximum, map) ==
  [name |-> name, discrete |-> FALSE, minimum |-> minimum, default |-> default,
   maximum |-> maximum, values |-> {}, map |-> map]

DiscreteAxisDescriptor(name, values, default, map) ==
  [name |-> name, discrete |-> TRUE, minimum |-> default, default |-> default,
   maximum |-> default, values |-> values, map |-> map]

\* AxisDescriptor.map_forward, for the user values the map lists; the
\* identity when the axis has no map
map_forward(dsAxis, v) ==
  IF \E i \in DOMAIN dsAxis.map : dsAxis.map[i][1] = v
  THEN dsAxis.map[CHOOSE i \in DOMAIN dsAxis.map : dsAxis.map[i][1] = v][2]
  ELSE v

\* unpackDSAxis, the poles: (minimum, default, maximum), or the values of a
\* discrete axis
unpackDSAxis(dsAxis) ==
  IF dsAxis.discrete THEN dsAxis.values ELSE unpackDSAxisPoles(dsAxis)

\* updateAxisInfo: axisPolePositions and defaultLocation of the axes
updateAxisInfo(axes) ==
  [axisPolePositions |->
     [n \in {axes[i].name : i \in DOMAIN axes} |->
        Bind(axes[CHOOSE i \in DOMAIN axes : axes[i].name = n], LAMBDA dsAxis :
          {map_forward(dsAxis, p) : p \in unpackDSAxis(dsAxis)})],
   defaultLocation |->
     [n \in {axes[i].name : i \in DOMAIN axes} |->
        Bind(axes[CHOOSE i \in DOMAIN axes : axes[i].name = n], LAMBDA dsAxis :
          map_forward(dsAxis, dsAxis.default))]]

\* _findDSSourceForSparseSource of a backend with this axis info
findDSSourceForSparseSource(axisInfo, dsSources, location) ==
  Bind(findSourceByLocation(
         dsSources,
         Merge(axisInfo.defaultLocation,
               splitLocationByPolePosition(location,
                                           axisInfo.axisPolePositions).atPole)),
       LAMBDA poleDSSource :
    IF poleDSSource # 0 THEN poleDSSource ELSE defaultDSSource(dsSources))

\* _createDSSourceForGlyph of a backend with this axis info, up to the call
\* that creates the layer or the UFO: which of the two, and the UFO that
\* gets the layer
createDSSourceForGlyph(axisInfo, dsSources, location) ==
  IF splitLocationByPolePosition(location, axisInfo.axisPolePositions).notAtPole
       # EmptyDict
  THEN [call |-> "_createUFOLayer",
        path |-> Bind(findDSSourceForSparseSource(axisInfo, dsSources, location),
                      LAMBDA i : IF i = 0 THEN NoName ELSE dsSources[i].layer.path)]
  ELSE [call |-> "_createUFO", path |-> NoName]

\* The axes of the documents: a weight axis, with a width axis that is
\* continuous (with and without a map) or discrete
WeightAxis == AxisDescriptor("wght", 0, 0, 2, <<>>)

ClassifyAxes ==
  {<<WeightAxis>>,
   <<WeightAxis, AxisDescriptor("wdth", 0, 1, 2, <<>>)>>,
   <<WeightAxis, AxisDescriptor("wdth", 0, 0, 2, <<<<0, 0>>, <<2, 4>>>>)>>,
   <<WeightAxis, DiscreteAxisDescriptor("wdth", {0, 3}, 0, <<>>)>>}

\* The values of the locations
ClassifyValues == 0..4

\* The sources of the documents: the default source, and with it a source
\* at the maximum of the weight axis
ClassifySources(axes) ==
  Bind(updateAxisInfo(axes).defaultLocation, LAMBDA dflt :
    {<<DSSource(RegularId, <<"Regular">>,
                UFOLayer(RegularPath, DefaultLayerName, RegularId), dflt, TRUE)>>,
     <<DSSource(RegularId, <<"Regular">>,
                UFOLayer(RegularPath, DefaultLayerName, RegularId), dflt, TRUE),
       DSSource(BoldId, <<"Bold">>,
                UFOLayer(BoldPath, DefaultLayerName, BoldId),
                [dflt EXCEPT !["wght"] = 2], FALSE)>>})

\* The calls: the axes, the sources and a location without a source
CreateDSSourceCalls ==
  UNION {UNION {{Pending("_createDSSourceForGlyph", <<axes, dsSources, location>>) :
                   location \in {l \in [{axes[i].name : i \in DOMAIN axes}
                                          -> ClassifyValues] :
                                   findSourceByLocation(dsSources, l) = 0}} :
                  dsSources \in ClassifySources(axes)} :
           axes \in ClassifyAxes}

InitClassify ==
  /\ w = OpenedOver(EmptyDisk)
  /\ subscribers = 0
  /\ task = NoTask
  /\ received = [c \in Callers |-> 0]
  /\ last = Called("open", "", NoInput)
  /\ report = NoReport
  /\ ops = 0
  /\ edits = 0
  /\ calc \in CreateDSSourceCalls
  /\ watcher = NoWatcher
  /\ otf = NoFont
  /\ itemList = NewItemList

\* _createDSSourceForGlyph decides what to create for the location
CreateDSSourceForGlyph ==
  /\ calc.fn = "_createDSSourceForGlyph"
  /\ Returns(createDSSourceForGlyph(updateAxisInfo(calc.args[1]), calc.args[2],
                                    calc.args[3]))

NextClassify == CreateDSSourceForGlyph

SpecClassify == InitClassify /\ [][NextClassify]_vars

\* The design values of the poles of the axis: minimum, default and
\* maximum through the map, or the values of a discrete axis
PolesOf(dsAxis) ==
  IF dsAxis.discrete THEN {map_forward(dsAxis, v) : v \in dsAxis.values}
  ELSE {map_forward(dsAxis, dsAxis.minimum), map_forward(dsAxis, dsAxis.default),
        map_forward(dsAxis, dsAxis.maximum)}

\* The axes of the location whose value is not at a pole
OffPole(axes, location) ==
  {n \in DOMAIN location :
     \A i \in DOMAIN axes : axes[i].name = n => location[n] \notin PolesOf(axes[i])}

\* The location with the default of the axis for every value that is not
\* at a pole
PoleProjection(axes, location) ==
  [n \in DOMAIN location |->
     IF n \in OffPole(axes, location)
     THEN Bind(axes[CHOOSE i \in DOMAIN axes : axes[i].name = n], LAMBDA dsAxis :
            map_forward(dsAxis, dsAxis.default))
     ELSE location[n]]

\* The UFO of the source at the location, of the default source when there
\* is none
PackageAt(dsSources, location) ==
  IF \E i \in DOMAIN dsSources : dsSources[i].location = location
  THEN dsSources[CHOOSE i \in DOMAIN dsSources :
                   dsSources[i].location = location].layer.path
  ELSE dsSources[CHOOSE i \in DOMAIN dsSources : dsSources[i].isDefault].layer.path

MaxItems == 3

\* The items: layers with a path and a name
ListItems == [path : {RegularPath, BoldPath}, name : {DefaultLayerName, <<"M">>}]

\* The keyword arguments of the queries: the names, in the order given,
\* and the values
AttrTuples == {<<"path">>, <<"name">>, <<"path", "name">>, <<"name", "path">>}

ValueTuples(attrTuple) ==
  {itemValueTuple(item, attrTuple) : item \in ListItems}

InitItemList ==
  /\ w = OpenedOver(EmptyDisk)
  /\ subscribers = 0
  /\ task = NoTask
  /\ received = [c \in Callers |-> 0]
  /\ last = Called("open", "", NoInput)
  /\ report = NoReport
  /\ ops = 0
  /\ edits = 0
  /\ calc = NoCalc
  /\ watcher = NoWatcher
  /\ otf = NoFont
  /\ itemList = NewItemList

\* A call on the list has returned
ListCall(fn, args, result) ==
  /\ calc' = [fn |-> fn, args |-> args, returned |-> TRUE, result |-> result]
  /\ UNCHANGED <<w, subscribers, task, received, last, report, ops, edits, watcher, otf>>

ItemListAppend ==
  \E item \in ListItems :
    /\ Len(itemList.items) < MaxItems
    /\ itemList' = append(itemList, item)
    /\ ListCall("append", <<item>>, <<>>)

ItemListFindItems ==
  \E attrTuple \in AttrTuples :
    \E valueTuple \in ValueTuples(attrTuple) :
      \E found \in {findItems(itemList, attrTuple, valueTuple)} :
        /\ itemList' = found.L
        /\ ListCall("findItems", <<attrTuple, valueTuple>>,
                    [isNone |-> found.isNone, items |-> found.items])

ItemListFindItem ==
  \E attrTuple \in AttrTuples :
    \E valueTuple \in ValueTuples(attrTuple) :
      \E found \in {findItemIn(itemList, attrTuple, valueTuple)} :
        /\ itemList' = found.L
        /\ ListCall("findItem", <<attrTuple, valueTuple>>,
                    [isNone |-> found.isNone, items |-> found.items])

NextItemList == ItemListAppend \/ ItemListFindItems \/ ItemListFindItem

SpecItemList == InitItemList /\ [][NextItemList]_vars

\* The items of the list whose attributes have the values, by a scan of
\* the list
LinearScan(items, attrTuple, valueTuple) ==
  SelectSeq(items, LAMBDA item :
    \A k \in DOMAIN attrTuple : item[attrTuple[k]] = valueTuple[k])

\* C27: in every interleaving of append, findItems and findItem, findItems
\* returns the items of the list that have the given values, in the order
\* in which they were appended (None when there is none), and findItem the
\* first of them or None, as a scan of the list would; an append leaves no
\* cached index, and a query leaves the items as they are.
IndexCacheCorrect ==
  [][/\ calc'.fn = "append" =>
          /\ itemList'.mappings = <<>>
          /\ itemList'.items = Append(itemList.items, calc'.args[1])
     /\ calc'.fn \in {"findItems", "findItem"} =>
          \E scan \in {LinearScan(itemList.items, calc'.args[1], calc'.args[2])} :
            /\ itemList'.items = itemList.items
            /\ calc'.result.isNone <=> scan = <<>>
            /\ calc'.fn = "findItems" => calc'.result.items = scan
            /\ (calc'.fn = "findItem" /\ scan # <<>>) =>
                 calc'.result.items = <<scan[1]>>]_vars

\* findItems has returned two of the three items, from an index that was
\* built after the last append, with another index in the cache
IndexCacheWitness ==
  /\ calc.fn = "findItems"
  /\ calc.returned
  /\ Len(itemList.items) = 3
  /\ Len(calc.result.items) = 2
  /\ calc.result.items[1] # calc.result.items[2]
  /\ Cardinality(DOMAIN itemList.mappings) >= 2

(***************************************************************************)
(* The tolerated locationBase and the reload of the designspace            *)
(***************************************************************************)
\* putGlyph with a locationBase that no source has
PutGlyphUnknownBase ==
  PutGlyphOf({"A"}, {GlyphUnknownBase(UnknownId1), GlyphUnknownBase(UnknownId2)})

NextReload ==
  \/ WatchExternalChanges
  \/ PutGlyphUnknownBase
  \/ ExternalWriteDocument
  \/ WatchFiles

SpecReload == InitWatch /\ [][NextReload]_vars

\* The callback has reloaded the designspace from its file
FullReloadStep == WatchStep /\ report'.reloadPattern.isNone /\ ~report'.raised

\* C28: after a full reload no locationBase is remembered, and the first
\* putGlyph after the reload whose sources have one unknown locationBase
\* does not raise, whatever identifier was tolerated before the reload.
ReloadForgetsLocationBase ==
  [][/\ FullReloadStep => w'.b.implicitDefaultLocationBase = NoName
     /\ (/\ PutStep
         /\ last.op = "_watchFiles"
         /\ report.reloadPattern.isNone
         /\ ~report.raised
         /\ last'.glyph \in {GlyphUnknownBase(UnknownId1),
                             GlyphUnknownBase(UnknownId2)}) => ~w'.raised]_vars

\* What the code does: a full reload keeps the locationBase it remembers
ReloadKeepsLocationBase ==
  [][FullReloadStep =>
       w'.b.implicitDefaultLocationBase = w.b.implicitDefaultLocationBase]_vars

(***************************************************************************)
(* The listings after a batch with additions or deletions                  *)
(***************************************************************************)
\* The batch the callback gets has an addition or a deletion of a glyph file
HasAdditionOrDeletion(W, batch) ==
  GlyphEvents(W, batch, ChangeAdded) \cup GlyphEvents(W, batch, ChangeDeleted) # {}

\* C29: when the batch that _fileWatcherCallback handles incrementally has
\* an addition or a deletion of a glyph file, the listings of the layers are
\* what is on disk when the callback has returned, which is when the
\* subscribers have been notified, and every glyph that has entered the
\* glyph map is in the rebuilt listing of the default source's layer; when
\* the batch has modifications only, the listings are as they were.
ListingsRebuilt ==
  [][IncrementalStep =>
       IF HasAdditionOrDeletion(w, report'.batch)
       THEN /\ w'.b.contents = contentsOfLayers(w'.d, w'.b.ufoLayers)
            /\ \A g \in DOMAIN w'.b.glyphMap \ DOMAIN w.b.glyphMap :
                 /\ InDefaultLayer(w', g)
                 /\ \E i \in {defaultDSSource(w'.b.dsSources)} :
                      inGlyphSet(w'.b, w'.b.dsSources[i].layer.path,
                                 w'.b.dsSources[i].layer.name, g)
       ELSE w'.b.contents = w.b.contents]_vars

\* The callback has handled the addition of C.glif to the default source by
\* another program: glyph C, which no listing had, is in the glyph map, and
\* the subscriber was notified
ListingsRebuiltWitness ==
  /\ last.op = "_watchFiles"
  /\ ~report.raised
  /\ ~report.reloadPattern.isNone
  /\ <<ChangeAdded, GlifPath(RegularPath, DefaultLayerName, "C")>> \in report.batch
  /\ report.notified > 0
  /\ report.reloadPattern.glyphMap
  /\ "C" \in DOMAIN w.b.glyphMap
  /\ <<RegularPath, DefaultLayerName, "C">> \in w.b.contents

(***************************************************************************)
(* The report of an incremental reload and the glyph map after it          *)
(***************************************************************************)
\* changedItems, as _analyzeExternalChanges returns it for the batch
ChangedItemsOf(W, batch) ==
  _analyzeExternalChanges(Tick(W),
                          cleanupWatchFilesChanges(Tick(W).d, batch)).changedItems

\* The new glyphs that the default source's layer has
FoundInDefault(W, items) == {g \in items.newGlyphs : InDefaultLayer(W, g)}

\* The glyph map after the step: the new glyphs found in the default
\* source's layer are in it with the code points of their files, the
\* deleted glyphs are not in it, every other glyph is as before
GlyphMapUpdated(items) ==
  /\ \A g \in FoundInDefault(w', items) :
       /\ g \in DOMAIN w'.b.glyphMap
       /\ w'.b.glyphMap[g] = DefaultFile(w', g).unicodes
  /\ \A g \in items.deletedGlyphs : g \notin DOMAIN w'.b.glyphMap
  /\ \A g \in AllGlyphNames \ (FoundInDefault(w', items) \cup items.deletedGlyphs) :
       /\ g \in DOMAIN w'.b.glyphMap <=> g \in DOMAIN w.b.glyphMap
       /\ g \in DOMAIN w.b.glyphMap => w'.b.glyphMap[g] = w.b.glyphMap[g]

\* C30: an incremental reload reports the changed glyphs of the analysis,
\* and has "glyphMap" exactly when a new glyph was found in the default
\* source's layer or a deleted glyph was in the glyph map; the glyph map
\* then has every new glyph found in the default source's layer with the
\* code points of its file, has no deleted glyph, and is as before for
\* every other glyph name.
IncrementalReport ==
  [][IncrementalStep =>
       \E items \in {ChangedItemsOf(w, report'.batch)} :
         /\ report'.reloadPattern.glyphs = items.changedGlyphs
         /\ report'.reloadPattern.glyphMap <=>
              (FoundInDefault(w', items) # {}
                 \/ items.deletedGlyphs \cap DOMAIN w.b.glyphMap # {})
         /\ GlyphMapUpdated(items)]_vars

\* The callback has handled a batch in which another program deleted A
\* from the default source and added C to it: the report has "glyphMap",
\* and the glyph map has C and not A
IncrementalReportWitness ==
  /\ last.op = "_watchFiles"
  /\ ~report.raised
  /\ ~report.reloadPattern.isNone
  /\ <<ChangeAdded, GlifPath(RegularPath, DefaultLayerName, "C")>> \in report.batch
  /\ <<ChangeDeleted, GlifPath(RegularPath, DefaultLayerName, "A")>> \in report.batch
  /\ report.reloadPattern.glyphMap
  /\ "C" \in DOMAIN w.b.glyphMap
  /\ "A" \notin DOMAIN w.b.glyphMap
  /\ "B" \in DOMAIN w.b.glyphMap

\* C30 as stated: "glyphMap" exactly when some glyph was added or deleted
IncrementalReportOnAnyAddition ==
  [][IncrementalStep =>
       \E items \in {ChangedItemsOf(w, report'.batch)} :
         /\ report'.reloadPattern.glyphs = items.changedGlyphs
         /\ report'.reloadPattern.glyphMap <=>
              (items.newGlyphs \cup items.deletedGlyphs # {})
         /\ GlyphMapUpdated(items)]_vars

(***************************************************************************)
(* The identifiers of the sources, for documents with any source names     *)
(***************************************************************************)
\* The names a source can have in the designspace file: none, the name
\* designspaceLib gives in that case, or a name that is or looks like an
\* identifier of the backend
SourceNameChoices ==
  {NoName, <<"temp_master.0">>, RegularId,
   <<"::fontra000">>, <<"::fontra001">>, <<"::fontra002">>}

\* The two sources of TwoSourceDisk under other names
DiskWithSourceNames(first, second) ==
  [TwoSourceDisk EXCEPT !.doc.sources[1].name = first,
                        !.doc.sources[2].name = second]

\* a glyph with sources at two locations where the font has no source
GlyphOuterSources ==
  VariableGlyph(<<>>,
                <<GlyphSource(<<"default">>, NoName, EmptyDict, <<"default">>),
                  GlyphSource(MediumId, NoName, [n \in {"wght"} |-> 1], MediumId),
                  GlyphSource(<<"outer">>, NoName, [n \in {"wght"} |-> 3],
                              <<"outer">>)>>,
                <<Layer(<<"default">>, StaticGlyph(5, {})),
                  Layer(MediumId, StaticGlyph(6, {})),
                  Layer(<<"outer">>, StaticGlyph(7, {}))>>)

\* a glyph with a source at one location where the font has no source
GlyphFarSource ==
  VariableGlyph(<<>>,
                <<GlyphSource(<<"default">>, NoName, EmptyDict, <<"default">>),
                  GlyphSource(<<"far">>, NoName, [n \in {"wght"} |-> 4], <<"far">>)>>,
                <<Layer(<<"default">>, StaticGlyph(5, {})),
                  Layer(<<"far">>, StaticGlyph(8, {}))>>)

InitNames ==
  /\ \E first \in SourceNameChoices, second \in SourceNameChoices :
       w = OpenedOver(DiskWithSourceNames(first, second))
  /\ subscribers = 0
  /\ task = NoTask
  /\ received = [c \in Callers |-> 0]
  /\ last = Called("open", "", NoInput)
  /\ report = NoReport
  /\ ops = 0
  /\ edits = 0
  /\ calc = NoCalc
  /\ watcher = NoWatcher
  /\ otf = NoFont
  /\ itemList = NewItemList

PutGlyphNewSources ==
  PutGlyphOf(GlyphNames, {GlyphNewSource, GlyphOuterSources, GlyphFarSource})

NextNames == PutGlyphNewSources \/ Reopen

SpecNames == InitNames /\ [][NextNames]_vars

\* The identifiers of the sources of the registry, in its order
Identifiers(b) == [i \in DOMAIN b.dsSources |-> b.dsSources[i].identifier]

\* C31: the identifiers of the sources in the registry are never empty and
\* are pairwise distinct, whatever names the sources have in the document,
\* and a putGlyph leaves every source of the registry in its place with the
\* identifier it had.
IdentifiersUniqueAndStable ==
  /\ [](\A i \in DOMAIN w.b.dsSources :
          /\ w.b.dsSources[i].identifier # NoName
          /\ \A j \in DOMAIN w.b.dsSources :
               w.b.dsSources[i].identifier = w.b.dsSources[j].identifier => i = j)
  /\ [][PutStep =>
          /\ Len(w'.b.dsSources) >= Len(w.b.dsSources)
          /\ SubSeq(Identifiers(w'.b), 1, Len(w.b.dsSources)) = Identifiers(w.b)]_vars

\* The document had a source without a name and a source named
\* "::fontra002"; putGlyph has created a third source, whose identifier got
\* the suffix "#1"
IdentifiersWitness ==
  /\ last.op = "putGlyph"
  /\ ~w.raised
  /\ Len(w.b.dsSources) >= 3
  /\ w.b.dsSources[1].identifier = <<"::fontra000">>
  /\ w.b.dsSources[2].identifier = <<"::fontra002">>
  /\ w.b.dsSources[3].identifier = <<"::fontra002", "#1">>

(***************************************************************************)
(* Writes while the dependency graph is being built                        *)
(***************************************************************************)
\* The components of the glyphs, as the files of the default source's layer
\* have them
ComponentsAsWritten(W) ==
  extractGlyphDependenciesFromUFO(
    W.d, W.b.dsSources[defaultDSSource(W.b.dsSources)].layer.path,
    W.b.dsSources[defaultDSSource(W.b.dsSources)].layer.name).madeOf

\* The build task is done and setResult has been called
BuildDoneStep == task.state = "scanned" /\ task'.state = "done"

\* C32: when the build completes, the graph that the backend keeps and the
\* waiting callers receive has, for every glyph, the components the glyph
\* was last written with, also when putGlyph or deleteGlyph ran while the
\* build was in flight.
WritesDuringBuildKept ==
  [][BuildDoneStep =>
       w'.b.glyphDependencies.madeOf = ComponentsAsWritten(w')]_vars

\* What the code does: the graph is what the subprocess read from the files
GraphIsWhatWasScanned ==
  [][BuildDoneStep => w'.b.glyphDependencies = task.result]_vars

(***************************************************************************)
(* The glyph map and the default source's layer                            *)
(***************************************************************************)
\* C33: every name in the glyph map has a glyph in the layer of the default
\* source, in its listing and on disk, so that getGlyph of the name does not
\* raise and does not return None.
GlyphMapConsistent ==
  \A g \in DOMAIN w.b.glyphMap :
    /\ InDefaultLayer(w, g)
    /\ inGlyphSet(w.b, w.b.dsSources[defaultDSSource(w.b.dsSources)].layer.path,
                  w.b.dsSources[defaultDSSource(w.b.dsSources)].layer.name, g)
    /\ ~getGlyph(w, g).raised
    /\ ~getGlyph(w, g).absent

(***************************************************************************)
(* A putGlyph that raises                                                  *)
(***************************************************************************)
\* putGlyph has raised for a glyph whose source has an unknown locationBase
PutRaisedForLocationBase ==
  /\ PutStep
  /\ w'.raised
  /\ last'.glyph \in {GlyphUnknownBase(UnknownId1), GlyphUnknownBase(UnknownId2)}

\* C34: when putGlyph raises because a source of the glyph has an unknown
\* locationBase, the glyph map, the dependency graph, the sources and the
\* layers of the registry, the layers and the glyph files of the UFOs, the
\* document and the ledger are as before the call.
FailedPutChangesNothing ==
  [][PutRaisedForLocationBase =>
       /\ w'.b.glyphMap = w.b.glyphMap
       /\ w'.b.glyphDependencies = w.b.glyphDependencies
       /\ w'.b.dsSources = w.b.dsSources
       /\ w'.b.ufoLayers = w.b.ufoLayers
       /\ w'.b.contents = w.b.contents
       /\ w'.b.savedGlyphModificationTimes = w.b.savedGlyphModificationTimes
       /\ w'.d.layers = w.d.layers
       /\ w'.d.glifs = w.d.glifs
       /\ w'.d.doc = w.d.doc]_vars

\* What the code leaves alone when putGlyph raises for the locationBase:
\* everything but the glyph map, which has the glyph with the code points
\* of the call, and the dependency graph
FailedPutKeepsFiles ==
  [][PutRaisedForLocationBase =>
       /\ last'.name \in DOMAIN w'.b.glyphMap
       /\ w'.b.glyphMap[last'.name] = CodePointsOf(last'.name)
       /\ \A g \in DOMAIN w.b.glyphMap \ {last'.name} :
            g \in DOMAIN w'.b.glyphMap /\ w'.b.glyphMap[g] = w.b.glyphMap[g]
       /\ w'.b.dsSources = w.b.dsSources
       /\ w'.b.ufoLayers = w.b.ufoLayers
       /\ w'.b.contents = w.b.contents
       /\ w'.b.savedGlyphModificationTimes = w.b.savedGlyphModificationTimes
       /\ w'.d.layers = w.d.layers
       /\ w'.d.glifs = w.d.glifs
       /\ w'.d.doc = w.d.doc]_vars

(***************************************************************************)
(* A glyph that another program writes again after deleteGlyph             *)
(***************************************************************************)
\* The glyphs that deleteGlyph has deleted (they are not in the glyph map,
\* and their ledger entry is None), for whose file in the default source's
\* layer the batch has an addition or a modification event, the file being
\* there again, written by another program
RecreatedAfterDelete(W, batch) ==
  {GlyphNameOfFile(e[2][4]) :
     e \in {f \in cleanupWatchFilesChanges(W.d, batch) :
              /\ f[1] \in {ChangeAdded, ChangeModified}
              /\ isGlif(f[2])
              /\ InDefaultSource(W, f)
              /\ pathExists(W.d, f[2])
              /\ KeyOfPath(f[2]) \in W.touched
              /\ GlyphNameOfFile(f[2][4]) \notin DOMAIN W.b.glyphMap
              /\ GlyphNameOfFile(f[2][4]) \in DOMAIN W.b.savedGlyphModificationTimes
              /\ W.b.savedGlyphModificationTimes[GlyphNameOfFile(f[2][4])]
                   = DeletedEverywhere}}

\* C35: when the callback handles an addition or a modification event for
\* the file, in the default source's layer, of a glyph that deleteGlyph had
\* deleted and another program has written again, the subscribers are
\* notified and the glyph is in the glyph map afterwards.
RecreationReported ==
  [][IncrementalStep =>
       \A g \in RecreatedAfterDelete(w, report'.batch) :
         /\ report'.notified = subscribers
         /\ g \in DOMAIN w'.b.glyphMap]_vars

\* What the code does when the file name is still in the file name map:
\* nothing is reported for the glyph and the glyph map stays without it
RecreationSuppressed ==
  [][IncrementalStep =>
       \A g \in RecreatedAfterDelete(w, report'.batch) :
         FileNameOf(g) \in DOMAIN w.b.glifFileNames =>
           /\ g \notin report'.reloadPattern.glyphs
           /\ g \notin DOMAIN w'.b.glyphMap]_vars

(***************************************************************************)
(* A deletion event for a file that is not in the file name map            *)
(***************************************************************************)
\* The deletion events of the batch for a glyph file in the default
\* source's layer whose name is not in the file name map
UnknownDeletions(W, batch) ==
  {e \in GlyphEvents(W, batch, ChangeDeleted) :
     InDefaultSource(W, e) /\ e[2][4] \notin DOMAIN W.b.glifFileNames}

\* The callback has handled a batch of such deletion events only
UnknownDeletionStep ==
  /\ WatchStep
  /\ UnknownDeletions(w, report'.batch) # {}
  /\ UnknownDeletions(w, report'.batch) = cleanupWatchFilesChanges(w.d, report'.batch)

\* C36: a batch of deletion events for glyph files in the default source's
\* layer whose names are not in the file name map is handled without an
\* error; no glyph is reported, and the file name map and the glyph map are
\* as before.
UnknownDeletionTolerated ==
  [][UnknownDeletionStep =>
       /\ ~report'.raised
       /\ report'.reloadPattern = EmptyPattern
       /\ w'.b.glifFileNames = w.b.glifFileNames
       /\ w'.b.glyphMap = w.b.glyphMap]_vars

\* What the code does: the callback raises (KeyError), the maps are as
\* before, and no subscriber is notified
UnknownDeletionRaises ==
  [][UnknownDeletionStep =>
       /\ report'.raised
       /\ report'.notified = 0
       /\ w'.b.glifFileNames = w.b.glifFileNames
       /\ w'.b.glyphMap = w.b.glyphMap]_vars

(***************************************************************************)
(* A FileWatcher on its own: the calls that change its paths, and its      *)
(* tasks                                                                   *)
(***************************************************************************)
\* The number of calls of setPaths, addPaths and removePaths
MaxWatcherCalls == 3

\* The sets of paths of the calls
WatchedPathSets == SUBSET {RegularPath, BoldPath}

\* A watcher as constructed, with no paths and no task
InitLoops ==
  /\ w = OpenedOver(EmptyDisk)
  /\ subscribers = 0
  /\ task = NoTask
  /\ received = [c \in Callers |-> 0]
  /\ last = Called("open", "", NoInput)
  /\ report = NoReport
  /\ ops = 0
  /\ edits = 0
  /\ calc = NoCalc
  /\ watcher = NoWatcher
  /\ otf = NoFont
  /\ itemList = NewItemList

\* A call on the watcher; it does not wait for the tasks created before
WatcherCall(op, F) ==
  /\ ops < MaxWatcherCalls
  /\ watcher' = F
  /\ ops' = ops + 1
  /\ last' = Called(op, "", NoInput)
  /\ UNCHANGED <<rest, w, subscribers, task, received, report, edits>>

SetPaths == \E paths \in WatchedPathSets : WatcherCall("setPaths", setPaths(watcher, paths))

AddPaths ==
  \E paths \in WatchedPathSets \ {{}} : WatcherCall("addPaths", addPaths(watcher, paths))

RemovePaths ==
  \E paths \in WatchedPathSets \ {{}} :
    WatcherCall("removePaths", removePaths(watcher, paths))

NextLoops ==
  \/ SetPaths
  \/ AddPaths
  \/ RemovePaths
  \/ WatchFilesStarts
  \/ SetEventAfterDelay
  \/ WatchFilesStops

\* The event loop runs the tasks that can run, and the delay of 0.1 s ends
SpecLoops ==
  /\ InitLoops
  /\ [][NextLoops]_vars
  /\ WF_vars(WatchFilesStarts)
  /\ WF_vars(SetEventAfterDelay)
  /\ WF_vars(WatchFilesStops)

\* At most one task of _watchFiles has not ended, none when there are no
\* paths, and it watches the paths of the watcher
OneCurrentLoop ==
  /\ Cardinality(running(watcher)) <= 1
  /\ watcher.paths = {} => running(watcher) = {}
  /\ \A i \in running(watcher) :
       /\ watcher.loops[i].state = "watching"
       /\ watcher.loops[i].paths = watcher.paths

\* C37: after the calls of setPaths, addPaths and removePaths, also those
\* made before a task created earlier has run, every superseded loop ends:
\* from some moment on at most one loop is running, none when the set of
\* paths is empty, and it watches the paths of the watcher.
WatchLoopUnique == <>[]OneCurrentLoop

\* What holds: the task created last comes to watch the paths of the watcher
\* and is not stopped
CurrentLoopWatches ==
  <>[](watcher.paths # {} =>
         /\ watcher.task \in running(watcher)
         /\ watcher.loops[watcher.task].state = "watching"
         /\ watcher.loops[watcher.task].paths = watcher.paths)

(***************************************************************************)
(* The registry of UFO layers                                              *)
(***************************************************************************)
SketchLayerName == <<"sketch">>

\* a glyph with a layer that no source uses
GlyphWithSketch ==
  VariableGlyph(<<>>,
                <<GlyphSource(NoName, RegularId, EmptyDict, RegularId)>>,
                <<Layer(RegularId, StaticGlyph(7, {})),
                  Layer(SketchLayerName, StaticGlyph(7, {}))>>)

PutGlyphWithLayers == PutGlyphOf(GlyphNames, {GlyphBothSources, GlyphWithSketch})

NextLayers ==
  \/ PutGlyphWithLayers
  \/ PutSources
  \/ Reopen

SpecLayers == Init /\ [][NextLayers]_vars

\* C38: after any putGlyph and putSources, the registry of layers never holds
\* two entries with the same UFO path and the same layer name: each layer of a
\* UFO is known under one fontraLayerName.
LayerRegistryUnique ==
  \A i, j \in DOMAIN w.b.ufoLayers :
    (w.b.ufoLayers[i].path = w.b.ufoLayers[j].path
       /\ w.b.ufoLayers[i].name = w.b.ufoLayers[j].name) => i = j

\* No layer of a UFO is registered under two fontraLayerNames
LayerHasOneAlias ==
  \A i, j \in DOMAIN w.b.ufoLayers :
    (w.b.ufoLayers[i].path = w.b.ufoLayers[j].path
       /\ w.b.ufoLayers[i].name = w.b.ufoLayers[j].name) =>
      w.b.ufoLayers[i].fontraLayerName = w.b.ufoLayers[j].fontraLayerName

(***************************************************************************)
(* cleanupWatchFilesChanges as a function of the events and of the files   *)
(* that exist                                                              *)
(***************************************************************************)
\* The paths of the events: a glyph file that exists on the disk with two
\* sources, one that exists on neither disk, and the designspace file
CleanupPaths ==
  {GlifPath(RegularPath, DefaultLayerName, "A"),
   GlifPath(RegularPath, DefaultLayerName, "C"),
   DocPath}

CleanupChanges == {ChangeAdded, ChangeModified, ChangeDeleted}

CleanupCalls ==
  {Pending("cleanupWatchFilesChanges", <<changes>>) :
     changes \in SUBSET (CleanupChanges \X CleanupPaths)}

InitCleanup ==
  /\ w \in {OpenedOver(EmptyDisk), OpenedOver(TwoSourceDisk)}
  /\ subscribers = 0
  /\ task = NoTask
  /\ received = [c \in Callers |-> 0]
  /\ last = Called("open", "", NoInput)
  /\ report = NoReport
  /\ ops = 0
  /\ edits = 0
  /\ calc \in CleanupCalls
  /\ watcher = NoWatcher
  /\ otf = NoFont
  /\ itemList = NewItemList

CleanupWatchFilesChanges ==
  /\ calc.fn = "cleanupWatchFilesChanges"
  /\ Returns(cleanupWatchFilesChanges(w.d, calc.args[1]))

NextCleanup == CleanupWatchFilesChanges

SpecCleanup == InitCleanup /\ [][NextCleanup]_vars

\* The events of the input for a path
ChangesFor(changes, path) == {e[1] : e \in {f \in changes : f[2] = path}}

\* The lowest of a set of changes in the order added, modified, deleted
LowestChange(cs) == CHOOSE c \in cs : \A c2 \in cs : c <= c2

\* C39: cleanupWatchFilesChanges returns one event for every path of its
\* input and for no other path; the event is deleted when the input has a
\* deleted event for the path and another event for it and the path does not
\* exist, and otherwise it is the lowest event of the input for the path, in
\* the order added, modified, deleted.
CleanupOneEventPerPath ==
  (calc.fn = "cleanupWatchFilesChanges" /\ calc.returned) =>
    /\ {e[2] : e \in calc.result} = {e[2] : e \in calc.args[1]}
    /\ \A e, f \in calc.result : e[2] = f[2] => e = f
    /\ \A e \in calc.result :
         e[1] = IF /\ ChangeDeleted \in ChangesFor(calc.args[1], e[2])
                   /\ ChangesFor(calc.args[1], e[2]) # {ChangeDeleted}
                   /\ ~pathExists(w.d, e[2])
                THEN ChangeDeleted
                ELSE LowestChange(ChangesFor(calc.args[1], e[2]))

\* A call has returned whose input had an added and a deleted event for a
\* file that does not exist, and a modified and a deleted event for one that
\* exists: the first is reported deleted, the second modified
CleanupWitness ==
  /\ calc.fn = "cleanupWatchFilesChanges"
  /\ calc.returned
  /\ {<<ChangeAdded, GlifPath(RegularPath, DefaultLayerName, "C")>>,
      <<ChangeDeleted, GlifPath(RegularPath, DefaultLayerName, "C")>>,
      <<ChangeModified, GlifPath(RegularPath, DefaultLayerName, "A")>>,
      <<ChangeDeleted, GlifPath(RegularPath, DefaultLayerName, "A")>>}
       \subseteq calc.args[1]
  /\ pathExists(w.d, GlifPath(RegularPath, DefaultLayerName, "A"))
  /\ <<ChangeDeleted, GlifPath(RegularPath, DefaultLayerName, "C")>> \in calc.result
  /\ <<ChangeModified, GlifPath(RegularPath, DefaultLayerName, "A")>> \in calc.result

(***************************************************************************)
(* ignoreNextChange and the events the watcher passes on                   *)
(***************************************************************************)
\* The paths ignoreNextChange is called with: a glyph file that exists and
\* one that does not
IgnoredPaths ==
  {GlifPath(RegularPath, DefaultLayerName, "A"),
   GlifPath(RegularPath, DefaultLayerName, "C")}

\* The paths of the events
EventPaths ==
  {GlifPath(RegularPath, DefaultLayerName, g) : g \in GlyphNames}
    \cup {GlifPath(BoldPath, DefaultLayerName, g) : g \in GlyphNames}
    \cup {DocPath}

\* The calls are recorded with the changes and the path they were given
NoPath == <<"none", NoName, NoName, NoName>>

\* A watcher with a callback, over the files of two sources
InitIgnore ==
  /\ w = OpenedOver(TwoSourceDisk)
  /\ subscribers = 1
  /\ task = NoTask
  /\ received = [c \in Callers |-> 0]
  /\ last = Called("open", "", NoInput)
  /\ report = NoReport
  /\ ops = 0
  /\ edits = 0
  /\ calc = [fn |-> "none", args |-> <<{}, NoPath>>, returned |-> FALSE, result |-> {}]
  /\ watcher = NoWatcher
  /\ otf = NoFont
  /\ itemList = NewItemList

IgnoreNextChange ==
  \E path \in IgnoredPaths :
    /\ ops < MaxOps
    /\ watcher' = ignoreNextChange(watcher, w.d, path)
    /\ calc' = [fn |-> "ignoreNextChange", args |-> <<{}, path>>, returned |-> TRUE,
                result |-> {}]
    /\ ops' = ops + 1
    /\ UNCHANGED <<otf, itemList, w, subscribers, task, received, last, report, edits>>

\* FileWatcher._watchFiles, one iteration up to the call of the callback
WatchFilesFilters ==
  \E batch \in Batches(w.ev) :
    /\ ops < MaxOps
    /\ batch # {}
    /\ \E cleaned \in {cleanupWatchFilesChanges(w.d, batch)} :
         \E filtered \in {_filterIgnores(watcher, w.d, cleaned)} :
           /\ watcher' = filtered.F
           /\ calc' = [fn |-> "_filterIgnores", args |-> <<cleaned, NoPath>>,
                       returned |-> TRUE, result |-> filtered.changes]
    /\ w' = [w EXCEPT !.ev = @ \ batch]
    /\ ops' = ops + 1
    /\ UNCHANGED <<otf, itemList, subscribers, task, received, last, report, edits>>

NextIgnore ==
  \/ IgnoreNextChange
  \/ ExternalWrite
  \/ ExternalDelete
  \/ WatchFilesFilters

SpecIgnore == InitIgnore /\ [][NextIgnore]_vars

\* The times recorded for a path
Recorded(F, path) == Get(F.ignorePaths, path, {})

IgnoreStep == ops' = ops + 1 /\ calc'.fn = "ignoreNextChange"

FilterStep == ops' = ops + 1 /\ calc'.fn = "_filterIgnores"

\* C40: ignoreNextChange(path) records the modification time the path has, or
\* that it is absent.  An event for a path is dropped exactly when the
\* modification time of the path at the time of filtering is one recorded for
\* it; the matched time is removed, so it suppresses no second event, and the
\* entry of the path disappears when it has no time left; an event for a path
\* without a matching record is passed on.
IgnoreSuppressesOnce ==
  [][/\ IgnoreStep =>
          \A p \in EventPaths :
            Recorded(watcher', p) =
              Recorded(watcher, p)
                \cup (IF p = calc'.args[2] THEN {pathModTime(w.d, p)} ELSE {})
     /\ FilterStep =>
          /\ calc'.result \subseteq calc'.args[1]
          /\ \A e \in calc'.args[1] :
               e \notin calc'.result <=>
                 pathModTime(w.d, e[2]) \in Recorded(watcher, e[2])
          /\ \A p \in EventPaths :
               Recorded(watcher', p) =
                 Recorded(watcher, p)
                   \ (IF \E e \in calc'.args[1] \ calc'.result : e[2] = p
                      THEN {pathModTime(w.d, p)} ELSE {})
          /\ \A p \in DOMAIN watcher'.ignorePaths : watcher'.ignorePaths[p] # {}
    ]_vars

\* An event was dropped, the path has no entry any more, and an event of the
\* same batch for another path was passed on
IgnoreWitness ==
  /\ calc.fn = "_filterIgnores"
  /\ \E e \in calc.args[1] : e \notin calc.result /\ e[2] \notin DOMAIN watcher.ignorePaths
  /\ calc.result # {}

====
